---- MODULE Spec2Model ----
(***************************************************************************)
(* Model of the decode pipeline of the NetFlow collector: the UDP ingest   *)
(* loop (threads/listener.rs), the IPFIX wire codecs (flow/ipfix.rs), the  *)
(* NetFlow v5 codecs (flow/netflow5.rs) and the exporter-keyed template    *)
(* cache.  Datagrams are sequences of octets; every decoder is translated  *)
(* from its source and works on the octets.                                *)
(*                                                                         *)
(* Numbers that do not fit TLC's integers (u32, u64, u128) are kept as     *)
(* "Num": the little-endian base-256 digits of the number, without leading *)
(* zero digits (0 is <<>>).  Two Nums are equal iff the numbers are equal. *)
(***************************************************************************)
EXTENDS Integers, Sequences, FiniteSets, TLC

VARIABLES build, exporter_list, last, nrecv, alive, channel, consumer, codec

vars == <<build, exporter_list, last, nrecv, alive, channel, consumer, codec>>

(***************************** bounds ************************************)

\* datagrams one run of the ingest loop receives
MaxDatagrams == 3

(************************* octets and numbers ****************************)

RECURSIVE Reverse(_)
Reverse(s) == IF s = <<>> THEN <<>> ELSE Reverse(Tail(s)) \o <<Head(s)>>

\* drop the most significant zero digits of a little-endian digit sequence
RECURSIVE Normalize(_)
Normalize(d) ==
    IF d = <<>> THEN <<>>
    ELSE IF d[Len(d)] = 0 THEN Normalize(SubSeq(d, 1, Len(d) - 1))
    ELSE d

\* uN::from_be_bytes(buf[off .. off+n]) for N > 16 bits, as a Num
from_be_bytes(buf, off, n) == Normalize(Reverse(SubSeq(buf, off + 1, off + n)))

\* u16::from_be_bytes(buf[off .. off+2])
u16_from_be_bytes(buf, off) == buf[off + 1] * 256 + buf[off + 2]

\* Num of a small natural number
RECURSIVE ToNum(_)
ToNum(n) == IF n = 0 THEN <<>> ELSE <<n % 256>> \o ToNum(n \div 256)

\* the w most significant-first octets of a Num known to fit w octets
RECURSIVE PadZero(_, _)
PadZero(d, w) == IF Len(d) >= w THEN d ELSE PadZero(d \o <<0>>, w)

to_be_bytes(num, w) == Reverse(PadZero(num, w))

\* a * d + carry for one digit d, digits of the product (not normalised)
RECURSIVE MulDigit(_, _, _)
MulDigit(a, d, carry) ==
    IF a = <<>> THEN (IF carry = 0 THEN <<>> ELSE <<carry>>)
    ELSE LET p == Head(a) * d + carry
         IN  <<p % 256>> \o MulDigit(Tail(a), d, p \div 256)

RECURSIVE AddDigits(_, _, _)
AddDigits(a, b, carry) ==
    IF a = <<>> /\ b = <<>> THEN (IF carry = 0 THEN <<>> ELSE <<carry>>)
    ELSE LET x == IF a = <<>> THEN 0 ELSE Head(a)
             y == IF b = <<>> THEN 0 ELSE Head(b)
             s == x + y + carry
         IN  <<s % 256>> \o AddDigits(IF a = <<>> THEN <<>> ELSE Tail(a),
                                      IF b = <<>> THEN <<>> ELSE Tail(b),
                                      s \div 256)

\* the mathematical product of two Nums
RECURSIVE MulNum(_, _)
MulNum(a, b) ==
    IF a = <<>> \/ b = <<>> THEN <<>>
    ELSE Normalize(AddDigits(MulDigit(a, Head(b), 0), <<0>> \o MulNum(a, Tail(b)), 0))

\* the product as Rust computes `*v *= s` on a w-octet unsigned integer:
\* a debug build panics on overflow, a release build wraps modulo 2^(8w)
checked_mul(a, b, w) ==
    LET p == MulNum(a, b)
    IN  [overflow |-> Len(p) > w,
         value    |-> Normalize(SubSeq(p, 1, IF Len(p) > w THEN w ELSE Len(p)))]

(************************ flow/ipfix.rs: wire codecs *********************)
\* A decoder applied to the slice &buf[off..] is written D(buf, off): the
\* slice has Len(buf) - off octets and its octet i is buf[off + i + 1].

VERSION_IPFIX == 10
VERSION_V5 == 5

Header_SIZE == 16
SetHeader_SIZE == 4
TemplateHeader_SIZE == 4
TemplateField_SIZE == 4
OptionTemplateHeader_SIZE == 6
DataSetTemplate_SET_ID == 2
OptionDataSetTemplate_SET_ID == 3
DataSet_MIN_SET_ID == 256

\* FieldType discriminants used by the decoder and by the inputs
OctetDeltaCount == 1
PacketDeltaCount == 2
ProtocolIdentifier == 4
SourceIPv4Address == 8
SamplingInterval == 34
FlowActiveTimeout == 36

\* faulty variant of FieldType_from_u16: every field id resolves
FieldType_AcceptsAll(n) == n >= 0

\* FromPrimitive::from_u16 for FieldType: the discriminants the enum declares
FieldType_from_u16(n) ==
    \/ n \in 0..64
    \/ n \in 70..96
    \/ n \in 98..104
    \/ n \in 128..415
    \/ n \in 417..418
    \/ n \in 420..491

SliceLen(buf, off) == Len(buf) - off

Header_read(buf, off) ==
    IF SliceLen(buf, off) < Header_SIZE THEN [ok |-> FALSE]
    ELSE [ok |-> TRUE,
          version     |-> u16_from_be_bytes(buf, off),
          length      |-> u16_from_be_bytes(buf, off + 2),
          export_time |-> from_be_bytes(buf, off + 4, 4),
          seq_number  |-> from_be_bytes(buf, off + 8, 4),
          domain_id   |-> from_be_bytes(buf, off + 12, 4)]

SetHeader_read(buf, off) ==
    IF SliceLen(buf, off) < SetHeader_SIZE THEN [ok |-> FALSE]
    ELSE [ok |-> TRUE,
          id     |-> u16_from_be_bytes(buf, off),
          length |-> u16_from_be_bytes(buf, off + 2)]

TemplateHeader_read(buf, off) ==
    IF SliceLen(buf, off) < TemplateHeader_SIZE THEN [ok |-> FALSE]
    ELSE [ok |-> TRUE,
          id          |-> u16_from_be_bytes(buf, off),
          field_count |-> u16_from_be_bytes(buf, off + 2)]

OptionTemplateHeader_read(buf, off) ==
    IF SliceLen(buf, off) < OptionTemplateHeader_SIZE THEN [ok |-> FALSE]
    ELSE [ok |-> TRUE,
          id                |-> u16_from_be_bytes(buf, off),
          field_count       |-> u16_from_be_bytes(buf, off + 2),
          scope_field_count |-> u16_from_be_bytes(buf, off + 4)]

TemplateField_read(buf, off) ==
    IF SliceLen(buf, off) < TemplateField_SIZE THEN [ok |-> FALSE]
    ELSE IF ~FieldType_from_u16(u16_from_be_bytes(buf, off)) THEN [ok |-> FALSE]
    ELSE [ok |-> TRUE,
          id     |-> u16_from_be_bytes(buf, off),
          length |-> u16_from_be_bytes(buf, off + 2)]

\* faulty variant of ReadTemplateFields: the cached length grows by the size
\* of the field specifier instead of the declared field length
RECURSIVE ReadTemplateFields_CountsSpecifiers(_, _, _, _)
ReadTemplateFields_CountsSpecifiers(buf, off, remaining, st) ==
    IF remaining = 0 THEN st
    ELSE LET field == TemplateField_read(buf, off + st.offset)
         IN  IF ~field.ok THEN [st EXCEPT !.ok = FALSE]
             ELSE ReadTemplateFields_CountsSpecifiers(buf, off, remaining - 1,
                    [ok     |-> TRUE,
                     fields |-> Append(st.fields, [id |-> field.id, length |-> field.length]),
                     offset |-> st.offset + TemplateField_SIZE,
                     length |-> st.length + TemplateField_SIZE])

\* the `for _ in 0..header.field_count` loop shared by both template readers:
\* st = [ok, fields, offset, length], offset relative to the template's start
RECURSIVE ReadTemplateFields(_, _, _, _)
ReadTemplateFields(buf, off, remaining, st) ==
    IF remaining = 0 THEN st
    ELSE LET field == TemplateField_read(buf, off + st.offset)
         IN  IF ~field.ok THEN [st EXCEPT !.ok = FALSE]
             ELSE ReadTemplateFields(buf, off, remaining - 1,
                    [ok     |-> TRUE,
                     fields |-> Append(st.fields, [id |-> field.id, length |-> field.length]),
                     offset |-> st.offset + TemplateField_SIZE,
                     length |-> st.length + field.length])

DataSetTemplate_read(buf, off) ==
    LET header == TemplateHeader_read(buf, off)
    IN  IF ~header.ok THEN [ok |-> FALSE]
        ELSE LET r == ReadTemplateFields(buf, off, header.field_count,
                        [ok |-> TRUE, fields |-> <<>>,
                         offset |-> TemplateHeader_SIZE, length |-> 0])
             IN  IF ~r.ok THEN [ok |-> FALSE]
                 ELSE [ok |-> TRUE,
                       template |-> [kind   |-> "IpfixDataSet",
                                     header |-> [id |-> header.id,
                                                 field_count |-> header.field_count],
                                     fields |-> r.fields,
                                     length |-> r.length],
                       size_read |-> r.offset]

OptionDataSetTemplate_read(buf, off) ==
    LET header == OptionTemplateHeader_read(buf, off)
    IN  IF ~header.ok THEN [ok |-> FALSE]
        ELSE LET r == ReadTemplateFields(buf, off, header.field_count,
                        [ok |-> TRUE, fields |-> <<>>,
                         offset |-> OptionTemplateHeader_SIZE, length |-> 0])
             IN  IF ~r.ok THEN [ok |-> FALSE]
                 ELSE [ok |-> TRUE,
                       template |-> [kind   |-> "IpfixOptionDataSet",
                                     header |-> [id |-> header.id,
                                                 field_count |-> header.field_count,
                                                 scope_field_count |-> header.scope_field_count],
                                     fields |-> r.fields,
                                     length |-> r.length],
                       size_read |-> r.offset]

\* HashMap::insert: the entry of key k is replaced, the others are kept
MapInsert(m, k, v) == [x \in (DOMAIN m) \cup {k} |-> IF x = k THEN v ELSE m[x]]

EmptyMap == [x \in {} |-> <<>>]

\* faulty variant of FieldValue_read: no arm for 16 octets
FieldValue_read_NoU128(buf, off, length) ==
    CASE length = 1  -> [t |-> "U8",   v |-> from_be_bytes(buf, off, 1)]
      [] length = 2  -> [t |-> "U16",  v |-> from_be_bytes(buf, off, 2)]
      [] length = 4  -> [t |-> "U32",  v |-> from_be_bytes(buf, off, 4)]
      [] length = 8  -> [t |-> "U64",  v |-> from_be_bytes(buf, off, 8)]
      [] OTHER       -> [t |-> "Dyn",  v |-> SubSeq(buf, off + 1, off + length)]

\* the match on field.length of DataSet::read
FieldValue_read(buf, off, length) ==
    CASE length = 1  -> [t |-> "U8",   v |-> from_be_bytes(buf, off, 1)]
      [] length = 2  -> [t |-> "U16",  v |-> from_be_bytes(buf, off, 2)]
      [] length = 4  -> [t |-> "U32",  v |-> from_be_bytes(buf, off, 4)]
      [] length = 8  -> [t |-> "U64",  v |-> from_be_bytes(buf, off, 8)]
      [] length = 16 -> [t |-> "U128", v |-> from_be_bytes(buf, off, 16)]
      [] OTHER       -> [t |-> "Dyn",  v |-> SubSeq(buf, off + 1, off + length)]

\* the `for field in field_list` loop of DataSet::read; st = [st, fields, offset];
\* indexing past the slice panics
RECURSIVE ReadFields(_, _, _, _, _)
ReadFields(buf, off, field_list, i, st) ==
    IF i > Len(field_list) THEN st
    ELSE LET field == field_list[i]
         IN  IF st.offset + field.length > SliceLen(buf, off)
                THEN [st EXCEPT !.st = "Panic"]
             ELSE ReadFields(buf, off, field_list, i + 1,
                    [st     |-> "Ok",
                     fields |-> MapInsert(st.fields, field.id,
                                  FieldValue_read(buf, off + st.offset, field.length)),
                     offset |-> st.offset + field.length])

\* faulty variant of DataSet_read: the slice is not compared with min_size
DataSet_read_NoSizeCheck(buf, off, field_list, min_size) ==
    LET r == ReadFields(buf, off, field_list, 1,
                [st |-> "Ok", fields |-> EmptyMap, offset |-> 0])
    IN  [st |-> r.st, fields |-> r.fields]

DataSet_read(buf, off, field_list, min_size) ==
    IF SliceLen(buf, off) < min_size THEN [st |-> "Err"]
    ELSE LET r == ReadFields(buf, off, field_list, 1,
                    [st |-> "Ok", fields |-> EmptyMap, offset |-> 0])
         IN  [st |-> r.st, fields |-> r.fields]

\* one `if let Some(FieldValue::U64(v)) = fields.get_mut(k) { *v *= sampling }`
MulField(r, k, sampling) ==
    IF r.st = "Ok" /\ k \in DOMAIN r.fields /\ r.fields[k].t = "U64"
       THEN LET m == checked_mul(r.fields[k].v, sampling, 8)
            IN  IF m.overflow /\ build = "debug" THEN [r EXCEPT !.st = "Panic"]
                ELSE [r EXCEPT !.fields[k].v = m.value]
    ELSE r

\* faulty variant of DataSet_add_sampling: the interval 0 multiplies as well
DataSet_add_sampling_ByZero(fields, sampling) ==
    MulField(MulField([st |-> "Ok", fields |-> fields], OctetDeltaCount, sampling),
             PacketDeltaCount, sampling)

\* DataSet::add_sampling(sampling: u64) on the record's fields
DataSet_add_sampling(fields, sampling) ==
    IF sampling # <<>>
       THEN MulField(MulField([st |-> "Ok", fields |-> fields], OctetDeltaCount, sampling),
                     PacketDeltaCount, sampling)
    ELSE [st |-> "Ok", fields |-> fields]

\* SetHeader::content_size: `self.length as usize - Self::SIZE`.  For
\* length < 4 a debug build panics; a release build yields 2^64 + (length - 4),
\* written here as the negative number length - 4: the only use,
\* `offset + set.content_size()`, wraps again to offset + length - 4.
SetHeader_content_size(set) == set.length - SetHeader_SIZE

(******************** threads/listener.rs: the cache *********************)

\* faulty variant of Exporter: the observation domain is left out of the key
Exporter_IgnoresDomain(addr, domain_id) == <<addr, <<>>>>

\* Exporter { addr, domain_id }
Exporter(addr, domain_id) == <<addr, domain_id>>

\* ExporterInfos::default()
ExporterInfos_default == [sampling |-> <<1>>, template |-> EmptyMap]

\* faulty variant of InsertTemplate: an id already present keeps its first definition
InsertTemplate_KeepsFirst(list, key, template) ==
    LET infos == IF key \in DOMAIN list THEN list[key] ELSE ExporterInfos_default
    IN  MapInsert(list, key,
            [infos EXCEPT !.template =
                IF template.header.id \in DOMAIN @ THEN @
                ELSE MapInsert(@, template.header.id, template)])

\* faulty variant of InsertTemplate: the entry starts again from the default
InsertTemplate_ResetsEntry(list, key, template) ==
    MapInsert(list, key,
        [ExporterInfos_default EXCEPT !.template =
            MapInsert(EmptyMap, template.header.id, template)])

\* faulty variant of InsertTemplate: ordinary and option templates are kept
\* apart, a template never replaces one of the other kind
InsertTemplate_KeepsKind(list, key, template) ==
    LET infos == IF key \in DOMAIN list THEN list[key] ELSE ExporterInfos_default
    IN  MapInsert(list, key,
            [infos EXCEPT !.template =
                IF template.header.id \in DOMAIN @ /\ @[template.header.id].kind # template.kind
                   THEN @
                ELSE MapInsert(@, template.header.id, template)])

\* exporter_list.entry(key).or_default().template.insert(id, template)
InsertTemplate(list, key, template) ==
    LET infos == IF key \in DOMAIN list THEN list[key] ELSE ExporterInfos_default
    IN  MapInsert(list, key,
            [infos EXCEPT !.template = MapInsert(@, template.header.id, template)])

(***************** threads/listener.rs: parse_ipfix_msg ******************)
\* Loop state st = [offset, data_set_list, exporter_list].  A loop returns
\* [status, st]: "Next" (loop left normally), "Err" (`?` returned an error),
\* "Panic" (the thread panicked) or "Hang" (the loop never ends).

padding == 4

RECURSIVE TemplateLoop(_, _, _, _, _)
TemplateLoop(from, buf, header, end_of_set, st) ==
    IF ~(st.offset + padding < end_of_set) THEN [status |-> "Next", st |-> st]
    ELSE LET r == DataSetTemplate_read(buf, st.offset)
         IN  IF ~r.ok THEN [status |-> "Err", st |-> st]
             ELSE TemplateLoop(from, buf, header, end_of_set,
                    [st EXCEPT !.offset = @ + r.size_read,
                               !.exporter_list =
                                   InsertTemplate(@, Exporter(from, header.domain_id), r.template)])

RECURSIVE OptionTemplateLoop(_, _, _, _, _)
OptionTemplateLoop(from, buf, header, end_of_set, st) ==
    IF ~(st.offset + padding < end_of_set) THEN [status |-> "Next", st |-> st]
    ELSE LET r == OptionDataSetTemplate_read(buf, st.offset)
         IN  IF ~r.ok THEN [status |-> "Err", st |-> st]
             ELSE OptionTemplateLoop(from, buf, header, end_of_set,
                    [st EXCEPT !.offset = @ + r.size_read,
                               !.exporter_list =
                                   InsertTemplate(@, Exporter(from, header.domain_id), r.template)])

\* faulty variant of DataLoop: a record that cannot be read ends the set, not the call
RECURSIVE DataLoop_DropsRestOfSet(_, _, _, _, _)
DataLoop_DropsRestOfSet(buf, key, t, end_of_set, st) ==
    IF ~(st.offset + padding < end_of_set) THEN [status |-> "Next", st |-> st]
    ELSE LET msg == DataSet_read(buf, st.offset, t.fields, t.length)
         IN  IF msg.st = "Err" THEN [status |-> "Next", st |-> st]
             ELSE IF msg.st # "Ok" THEN [status |-> msg.st, st |-> st]
             ELSE LET s == DataSet_add_sampling(msg.fields, st.exporter_list[key].sampling)
                  IN  IF s.st # "Ok" THEN [status |-> s.st, st |-> st]
                      ELSE IF t.length = 0 THEN [status |-> "Hang", st |-> st]
                      ELSE DataLoop_DropsRestOfSet(buf, key, t, end_of_set,
                             [st EXCEPT !.offset = @ + t.length,
                                        !.data_set_list = Append(@, [fields |-> s.fields])])

\* Template::IpfixDataSet(t): decode, correct and push the records of the set
RECURSIVE DataLoop(_, _, _, _, _)
DataLoop(buf, key, t, end_of_set, st) ==
    IF ~(st.offset + padding < end_of_set) THEN [status |-> "Next", st |-> st]
    ELSE LET msg == DataSet_read(buf, st.offset, t.fields, t.length)
         IN  IF msg.st # "Ok" THEN [status |-> msg.st, st |-> st]
             ELSE LET s == DataSet_add_sampling(msg.fields, st.exporter_list[key].sampling)
                  IN  IF s.st # "Ok" THEN [status |-> s.st, st |-> st]
                      ELSE IF t.length = 0
                              \* offset += 0: the loop pushes records for ever
                              THEN [status |-> "Hang", st |-> st]
                      ELSE DataLoop(buf, key, t, end_of_set,
                             [st EXCEPT !.offset = @ + t.length,
                                        !.data_set_list = Append(@, [fields |-> s.fields])])

\* faulty variant of OptionDataLoop: the option records are pushed like flow records
RECURSIVE OptionDataLoop_PushesRecords(_, _, _, _, _)
OptionDataLoop_PushesRecords(buf, key, t, end_of_set, st) ==
    IF ~(st.offset + padding < end_of_set) THEN [status |-> "Next", st |-> st]
    ELSE LET msg == DataSet_read(buf, st.offset, t.fields, t.length)
         IN  IF msg.st # "Ok" THEN [status |-> msg.st, st |-> st]
             ELSE IF t.length = 0 THEN [status |-> "Hang", st |-> st]
             ELSE LET learn == /\ SamplingInterval \in DOMAIN msg.fields
                               /\ msg.fields[SamplingInterval].t = "U32"
                               /\ st.exporter_list[key].sampling # msg.fields[SamplingInterval].v
                  IN  OptionDataLoop_PushesRecords(buf, key, t, end_of_set,
                        [st EXCEPT !.offset = @ + t.length,
                                   !.data_set_list = Append(@, [fields |-> msg.fields]),
                                   !.exporter_list[key].sampling =
                                       IF learn THEN msg.fields[SamplingInterval].v ELSE @])

\* faulty variant of OptionDataLoop: the interval read multiplies the stored one
RECURSIVE OptionDataLoop_Accumulates(_, _, _, _, _)
OptionDataLoop_Accumulates(buf, key, t, end_of_set, st) ==
    IF ~(st.offset + padding < end_of_set) THEN [status |-> "Next", st |-> st]
    ELSE LET msg == DataSet_read(buf, st.offset, t.fields, t.length)
         IN  IF msg.st # "Ok" THEN [status |-> msg.st, st |-> st]
             ELSE IF t.length = 0 THEN [status |-> "Hang", st |-> st]
             ELSE LET learn == /\ SamplingInterval \in DOMAIN msg.fields
                               /\ msg.fields[SamplingInterval].t = "U32"
                  IN  OptionDataLoop_Accumulates(buf, key, t, end_of_set,
                        [st EXCEPT !.offset = @ + t.length,
                                   !.exporter_list[key].sampling =
                                       IF learn
                                          THEN checked_mul(@, msg.fields[SamplingInterval].v, 4).value
                                       ELSE @])

\* faulty variant of OptionDataLoop: a new interval also corrects the records
\* the datagram gave before the option record
RECURSIVE OptionDataLoop_Rescales(_, _, _, _, _)
OptionDataLoop_Rescales(buf, key, t, end_of_set, st) ==
    IF ~(st.offset + padding < end_of_set) THEN [status |-> "Next", st |-> st]
    ELSE LET msg == DataSet_read(buf, st.offset, t.fields, t.length)
         IN  IF msg.st # "Ok" THEN [status |-> msg.st, st |-> st]
             ELSE IF t.length = 0 THEN [status |-> "Hang", st |-> st]
             ELSE LET learn == /\ SamplingInterval \in DOMAIN msg.fields
                               /\ msg.fields[SamplingInterval].t = "U32"
                               /\ st.exporter_list[key].sampling # msg.fields[SamplingInterval].v
                  IN  OptionDataLoop_Rescales(buf, key, t, end_of_set,
                        [st EXCEPT !.offset = @ + t.length,
                                   !.data_set_list =
                                       IF learn
                                          THEN [i \in DOMAIN @ |->
                                                  [fields |-> DataSet_add_sampling(@[i].fields,
                                                                 msg.fields[SamplingInterval].v).fields]]
                                       ELSE @,
                                   !.exporter_list[key].sampling =
                                       IF learn THEN msg.fields[SamplingInterval].v ELSE @])

\* faulty variant of OptionDataLoop: a samplingInterval of any width is learned
RECURSIVE OptionDataLoop_AnyWidth(_, _, _, _, _)
OptionDataLoop_AnyWidth(buf, key, t, end_of_set, st) ==
    IF ~(st.offset + padding < end_of_set) THEN [status |-> "Next", st |-> st]
    ELSE LET msg == DataSet_read(buf, st.offset, t.fields, t.length)
         IN  IF msg.st # "Ok" THEN [status |-> msg.st, st |-> st]
             ELSE IF t.length = 0 THEN [status |-> "Hang", st |-> st]
             ELSE LET learn == /\ SamplingInterval \in DOMAIN msg.fields
                               /\ msg.fields[SamplingInterval].t # "Dyn"
                               /\ st.exporter_list[key].sampling # msg.fields[SamplingInterval].v
                  IN  OptionDataLoop_AnyWidth(buf, key, t, end_of_set,
                        [st EXCEPT !.offset = @ + t.length,
                                   !.exporter_list[key].sampling =
                                       IF learn THEN msg.fields[SamplingInterval].v ELSE @])

\* Template::IpfixOptionDataSet(t): decode the records, learn the sampling
RECURSIVE OptionDataLoop(_, _, _, _, _)
OptionDataLoop(buf, key, t, end_of_set, st) ==
    IF ~(st.offset + padding < end_of_set) THEN [status |-> "Next", st |-> st]
    ELSE LET msg == DataSet_read(buf, st.offset, t.fields, t.length)
         IN  IF msg.st # "Ok" THEN [status |-> msg.st, st |-> st]
             ELSE IF t.length = 0 THEN [status |-> "Hang", st |-> st]
             ELSE LET learn == /\ SamplingInterval \in DOMAIN msg.fields
                               /\ msg.fields[SamplingInterval].t = "U32"
                               /\ st.exporter_list[key].sampling # msg.fields[SamplingInterval].v
                  IN  OptionDataLoop(buf, key, t, end_of_set,
                        [st EXCEPT !.offset = @ + t.length,
                                   !.exporter_list[key].sampling =
                                       IF learn THEN msg.fields[SamplingInterval].v ELSE @])

\* faulty variant of SetBody: a data set without template creates the exporter entry
SetBody_CreatesEntry(from, buf, header, set, end_of_set, st) ==
    LET exporter_key == Exporter(from, header.domain_id)
    IN  IF set.id = DataSetTemplate_SET_ID
           THEN TemplateLoop(from, buf, header, end_of_set, st)
        ELSE IF set.id = OptionDataSetTemplate_SET_ID
           THEN OptionTemplateLoop(from, buf, header, end_of_set, st)
        ELSE IF set.id >= DataSet_MIN_SET_ID
           THEN IF /\ exporter_key \in DOMAIN st.exporter_list
                   /\ set.id \in DOMAIN st.exporter_list[exporter_key].template
                   THEN LET t == st.exporter_list[exporter_key].template[set.id]
                        IN  IF t.kind = "IpfixDataSet"
                               THEN DataLoop(buf, exporter_key, t, end_of_set, st)
                            ELSE OptionDataLoop(buf, exporter_key, t, end_of_set, st)
                ELSE [status |-> "Next",
                      st |-> [st EXCEPT !.exporter_list =
                                IF exporter_key \in DOMAIN @ THEN @
                                ELSE MapInsert(@, exporter_key, ExporterInfos_default)]]
        ELSE [status |-> "Err", st |-> st]

\* faulty variant of SetBody: a set with a reserved id is skipped like a
\* data set without template
SetBody_SkipsReservedId(from, buf, header, set, end_of_set, st) ==
    LET exporter_key == Exporter(from, header.domain_id)
    IN  IF set.id = DataSetTemplate_SET_ID
           THEN TemplateLoop(from, buf, header, end_of_set, st)
        ELSE IF set.id = OptionDataSetTemplate_SET_ID
           THEN OptionTemplateLoop(from, buf, header, end_of_set, st)
        ELSE IF /\ set.id >= DataSet_MIN_SET_ID
                /\ exporter_key \in DOMAIN st.exporter_list
                /\ set.id \in DOMAIN st.exporter_list[exporter_key].template
           THEN LET t == st.exporter_list[exporter_key].template[set.id]
                IN  IF t.kind = "IpfixDataSet"
                       THEN DataLoop(buf, exporter_key, t, end_of_set, st)
                    ELSE OptionDataLoop(buf, exporter_key, t, end_of_set, st)
        ELSE [status |-> "Next", st |-> st]

\* the body of `while offset < buf_len` between the set header and
\* `offset = end_of_set`; st.offset is already past the set header
SetBody(from, buf, header, set, end_of_set, st) ==
    LET exporter_key == Exporter(from, header.domain_id)
    IN  IF set.id = DataSetTemplate_SET_ID
           THEN TemplateLoop(from, buf, header, end_of_set, st)
        ELSE IF set.id = OptionDataSetTemplate_SET_ID
           THEN OptionTemplateLoop(from, buf, header, end_of_set, st)
        ELSE IF set.id >= DataSet_MIN_SET_ID
           THEN IF /\ exporter_key \in DOMAIN st.exporter_list
                   /\ set.id \in DOMAIN st.exporter_list[exporter_key].template
                   THEN LET t == st.exporter_list[exporter_key].template[set.id]
                        IN  IF t.kind = "IpfixDataSet"
                               THEN DataLoop(buf, exporter_key, t, end_of_set, st)
                            ELSE OptionDataLoop(buf, exporter_key, t, end_of_set, st)
                ELSE [status |-> "Next", st |-> st]
        ELSE [status |-> "Err", st |-> st]

RECURSIVE SetLoop(_, _, _, _)
\* the end of one iteration of the set loop: r is what the body of the
\* iteration answered for the set that started at st.offset
SetLoop_continue(from, buf, header, st, end_of_set, r) ==
    IF r.status # "Next" THEN r
    ELSE IF end_of_set = st.offset
            \* the next iteration reads the same set header again
            THEN [status |-> "Hang", st |-> r.st]
    ELSE SetLoop(from, buf, header, [r.st EXCEPT !.offset = end_of_set])

\* one iteration of the set loop for the set header `set` read at st.offset
SetLoop_iteration(from, buf, header, st, set, end_of_set) ==
    SetLoop_continue(from, buf, header, st, end_of_set,
                     SetBody(from, buf, header, set, end_of_set,
                             [st EXCEPT !.offset = st.offset + SetHeader_SIZE]))

SetLoop_set(from, buf, header, st, set) ==
    IF ~set.ok THEN [status |-> "Err", st |-> st]
    ELSE IF SetHeader_content_size(set) < 0 /\ build = "debug"
            THEN [status |-> "Panic", st |-> st]
    ELSE SetLoop_iteration(from, buf, header, st, set,
                           st.offset + SetHeader_SIZE + SetHeader_content_size(set))

SetLoop(from, buf, header, st) ==
    IF ~(st.offset < Len(buf)) THEN [status |-> "Ok", st |-> st]
    ELSE SetLoop_set(from, buf, header, st, SetHeader_read(buf, st.offset))

\* faulty variant of parse_ipfix_msg: the length word of the header is not
\* compared with the number of octets received
parse_ipfix_msg_NoLengthCheck(from, buf, list) ==
    LET header == Header_read(buf, 0)
        st0    == [offset |-> Header_SIZE, data_set_list |-> <<>>, exporter_list |-> list]
    IN  IF ~header.ok THEN [status |-> "Err", st |-> st0]
        ELSE SetLoop(from, buf, header, st0)

\* faulty variant of parse_ipfix_msg: a rejected datagram leaves the cache as
\* it was before the datagram
parse_ipfix_msg_RollsBack(from, buf, list) ==
    LET header == Header_read(buf, 0)
        st0    == [offset |-> Header_SIZE, data_set_list |-> <<>>, exporter_list |-> list]
    IN  IF ~header.ok THEN [status |-> "Err", st |-> st0]
        ELSE IF Len(buf) # header.length THEN [status |-> "Err", st |-> st0]
        ELSE IF SetLoop(from, buf, header, st0).status = "Err"
             THEN [status |-> "Err",
                   st |-> [SetLoop(from, buf, header, st0).st EXCEPT !.exporter_list = list]]
             ELSE SetLoop(from, buf, header, st0)

\* Result: status "Ok" carries data_set_list; with "Err" the list is dropped
\* by the `?`; the cache was mutated in place and keeps what was written.
parse_ipfix_msg(from, buf, list) ==
    LET header == Header_read(buf, 0)
        st0    == [offset |-> Header_SIZE, data_set_list |-> <<>>, exporter_list |-> list]
    IN  IF ~header.ok THEN [status |-> "Err", st |-> st0]
        ELSE IF Len(buf) # header.length THEN [status |-> "Err", st |-> st0]
        ELSE SetLoop(from, buf, header, st0)

(********************** flow/netflow5.rs: wire codecs ********************)

V5Header_SIZE == 24
V5DataSet_SIZE == 48

V5Header_read(buf, off) ==
    IF SliceLen(buf, off) < V5Header_SIZE THEN [ok |-> FALSE]
    ELSE [ok |-> TRUE,
          version     |-> u16_from_be_bytes(buf, off),
          count       |-> u16_from_be_bytes(buf, off + 2),
          uptime      |-> from_be_bytes(buf, off + 4, 4),
          unix_secs   |-> from_be_bytes(buf, off + 8, 4),
          unix_nsecs  |-> from_be_bytes(buf, off + 12, 4),
          seq_number  |-> from_be_bytes(buf, off + 16, 4),
          engine_type |-> buf[off + 21],
          engine_id   |-> buf[off + 22],
          sampl       |-> u16_from_be_bytes(buf, off + 22)]

\* self.sampl & 0b0011_1111_1111_1111
V5Header_sampl_interval(header) == header.sampl % 16384

V5DataSet_read(buf, off) ==
    IF SliceLen(buf, off) < V5DataSet_SIZE THEN [ok |-> FALSE]
    ELSE [ok |-> TRUE,
          pdu |-> [src_addr   |-> from_be_bytes(buf, off, 4),
                   dst_addr   |-> from_be_bytes(buf, off + 4, 4),
                   next_hop   |-> from_be_bytes(buf, off + 8, 4),
                   input_int  |-> u16_from_be_bytes(buf, off + 12),
                   output_int |-> u16_from_be_bytes(buf, off + 14),
                   packets    |-> from_be_bytes(buf, off + 16, 4),
                   octets     |-> from_be_bytes(buf, off + 20, 4),
                   start_time |-> from_be_bytes(buf, off + 24, 4),
                   end_time   |-> from_be_bytes(buf, off + 28, 4),
                   src_port   |-> u16_from_be_bytes(buf, off + 32),
                   dst_port   |-> u16_from_be_bytes(buf, off + 34),
                   pad1       |-> buf[off + 37],
                   tcp_flag   |-> buf[off + 38],
                   protocol   |-> buf[off + 39],
                   tos        |-> buf[off + 40],
                   src_as     |-> u16_from_be_bytes(buf, off + 40),
                   dst_as     |-> u16_from_be_bytes(buf, off + 42),
                   src_mask   |-> buf[off + 45],
                   dst_mask   |-> buf[off + 46],
                   pad2       |-> u16_from_be_bytes(buf, off + 46)]]

\* DataSet::add_sampling(sampling: u32): octets first, then packets
V5DataSet_add_sampling(pdu, sampling) ==
    IF sampling # <<>>
       THEN LET o == checked_mul(pdu.octets, sampling, 4)
                k == checked_mul(pdu.packets, sampling, 4)
            IN  IF (o.overflow \/ k.overflow) /\ build = "debug"
                   THEN [st |-> "Panic", pdu |-> pdu]
                ELSE [st |-> "Ok", pdu |-> [pdu EXCEPT !.octets = o.value, !.packets = k.value]]
    ELSE [st |-> "Ok", pdu |-> pdu]

(******************* threads/listener.rs: parse_v5_msg *******************)

\* faulty variant of PduLoop: the loop ends where no whole record is left
RECURSIVE PduLoop_StopsAtPartial(_, _, _, _)
PduLoop_StopsAtPartial(buf, header, offset, pdu_list) ==
    IF ~(offset + V5DataSet_SIZE <= Len(buf)) THEN [status |-> "Ok", list |-> pdu_list]
    ELSE LET r == V5DataSet_read(buf, offset)
         IN  IF ~r.ok THEN [status |-> "Err", list |-> <<>>]
             ELSE LET s == V5DataSet_add_sampling(r.pdu, ToNum(V5Header_sampl_interval(header)))
                  IN  IF s.st # "Ok" THEN [status |-> s.st, list |-> <<>>]
                      ELSE PduLoop_StopsAtPartial(buf, header, offset + V5DataSet_SIZE,
                                                  Append(pdu_list, s.pdu))

RECURSIVE PduLoop(_, _, _, _)
PduLoop(buf, header, offset, pdu_list) ==
    IF ~(offset < Len(buf)) THEN [status |-> "Ok", list |-> pdu_list]
    ELSE LET r == V5DataSet_read(buf, offset)
         IN  IF ~r.ok THEN [status |-> "Err", list |-> <<>>]
             ELSE LET s == V5DataSet_add_sampling(r.pdu, ToNum(V5Header_sampl_interval(header)))
                  IN  IF s.st # "Ok" THEN [status |-> s.st, list |-> <<>>]
                      ELSE PduLoop(buf, header, offset + V5DataSet_SIZE, Append(pdu_list, s.pdu))

\* faulty variant of parse_v5_msg: header.count is not compared with the
\* number of records the datagram has room for
parse_v5_msg_NoCountCheck(buf) ==
    IF Len(buf) < V5Header_SIZE THEN [status |-> "Panic", list |-> <<>>]
    ELSE LET header == V5Header_read(buf, 0)
         IN  IF ~header.ok THEN [status |-> "Err", list |-> <<>>]
             ELSE PduLoop(buf, header, V5Header_SIZE, <<>>)

parse_v5_msg(buf) ==
    \* &buf[0..Header::SIZE] panics on a shorter buffer
    IF Len(buf) < V5Header_SIZE THEN [status |-> "Panic", list |-> <<>>]
    ELSE LET header == V5Header_read(buf, 0)
             nb_pdu == (Len(buf) - V5Header_SIZE) \div V5DataSet_SIZE
         IN  IF ~header.ok THEN [status |-> "Err", list |-> <<>>]
             ELSE IF nb_pdu # header.count THEN [status |-> "Err", list |-> <<>>]
             ELSE PduLoop(buf, header, V5Header_SIZE, <<>>)

(************************** the exporters' datagrams *********************)
\* What the environment sends: datagrams built set by set and serialised
\* to octets.  A set is described by [kind, id, length, content, tpls, recs]:
\* id and length are the words of its set header, content the octets after
\* it; tpls lists the template records of a template set ("T") or option
\* template set ("OT"), recs the data records of a data set ("D").

U16BE(n) == <<n \div 256, n % 256>>

RECURSIVE Concat(_)
Concat(ss) == IF ss = <<>> THEN <<>> ELSE Head(ss) \o Concat(Tail(ss))

Field(id, length) == [id |-> id, length |-> length]

EncFields(fields) == Concat([i \in 1..Len(fields) |-> U16BE(fields[i].id) \o U16BE(fields[i].length)])

EncTemplate(t) == U16BE(t.id) \o U16BE(Len(t.fields)) \o EncFields(t.fields)

EncOptionTemplate(t) == U16BE(t.id) \o U16BE(Len(t.fields)) \o U16BE(1) \o EncFields(t.fields)

TemplateSet(tpls) ==
    LET content == Concat([i \in 1..Len(tpls) |-> EncTemplate(tpls[i])])
    IN  [kind |-> "T", id |-> 2, length |-> 4 + Len(content), content |-> content,
         tpls |-> tpls, recs |-> <<>>]

OptionTemplateSet(tpls) ==
    LET content == Concat([i \in 1..Len(tpls) |-> EncOptionTemplate(tpls[i])])
    IN  [kind |-> "OT", id |-> 3, length |-> 4 + Len(content), content |-> content,
         tpls |-> tpls, recs |-> <<>>]

DataSetOf(id, recs) ==
    [kind |-> "D", id |-> id, length |-> 4 + Len(Concat(recs)), content |-> Concat(recs),
     tpls |-> <<>>, recs |-> recs]

\* a set whose header announces `length` octets, whatever its content is
Overlong(s, length) == [s EXCEPT !.length = length]

\* a set with an id that is neither a template set, an option template set
\* nor a data set
ReservedSet(id, content) ==
    [kind |-> "R", id |-> id, length |-> 4 + Len(content), content |-> content,
     tpls |-> <<>>, recs |-> <<>>]

EncSet(s) == U16BE(s.id) \o U16BE(s.length) \o s.content

EncMessage(domain, sets) ==
    LET body == Concat([i \in 1..Len(sets) |-> EncSet(sets[i])])
    IN  U16BE(VERSION_IPFIX) \o U16BE(Header_SIZE + Len(body))
            \o <<96, 108, 85, 137>> \o <<0, 0, 0, 1>> \o to_be_bytes(domain, 4) \o body

\* field lists of the templates the exporters advertise
FieldsA == <<Field(OctetDeltaCount, 8), Field(PacketDeltaCount, 8), Field(ProtocolIdentifier, 1)>>
FieldsB == <<Field(OctetDeltaCount, 4), Field(ProtocolIdentifier, 1)>>
FieldsSmall == <<Field(SourceIPv4Address, 4)>>
FieldsUnknown == <<Field(SourceIPv4Address, 4), Field(65, 4)>>
FieldsOption == <<Field(SamplingInterval, 4), Field(FlowActiveTimeout, 2)>>
FieldsZero == <<Field(FlowActiveTimeout, 0)>>

TplA == [id |-> 256, fields |-> FieldsA]
TplB == [id |-> 256, fields |-> FieldsB]
TplSmall == [id |-> 258, fields |-> FieldsSmall]
TplUnknown == [id |-> 258, fields |-> FieldsUnknown]
TplOption == [id |-> 257, fields |-> FieldsOption]
TplZero == [id |-> 259, fields |-> FieldsZero]
TplLow == [id |-> 5, fields |-> FieldsB]
TplOptionWide == [id |-> 260, fields |-> <<Field(SamplingInterval, 8), Field(FlowActiveTimeout, 2)>>]
TplOptionNarrow == [id |-> 261, fields |-> <<Field(SamplingInterval, 2), Field(FlowActiveTimeout, 2),
                                            Field(ProtocolIdentifier, 1)>>]
TplOptionNone == [id |-> 262, fields |-> <<Field(FlowActiveTimeout, 2), Field(SourceIPv4Address, 4)>>]
TplOptionAs256 == [id |-> 256, fields |-> FieldsOption]
TplAAs257 == [id |-> 257, fields |-> FieldsA]

\* data records as they are on the wire
RecA(octets, packets) == to_be_bytes(octets, 8) \o to_be_bytes(packets, 8) \o <<6>>
RecB == <<0, 0, 1, 44, 17>>
RecSmall == <<10, 0, 0, 8>>
RecSmall2 == <<10, 0, 0, 9>>
RecOption(interval) == to_be_bytes(interval, 4) \o <<0, 10>>
RecOptionWide(interval) == to_be_bytes(interval, 8) \o <<0, 10>>
RecOptionNarrow(interval) == to_be_bytes(interval, 2) \o <<0, 10, 6>>
RecOptionNone == <<0, 10, 10, 0, 0, 8>>

Big == <<0, 0, 0, 0, 0, 0, 0, 128>>

\* the set sequences of the IPFIX datagrams
Bodies ==
    { <<TemplateSet(<<TplA>>)>>,
      <<TemplateSet(<<TplB>>)>>,
      <<TemplateSet(<<TplSmall>>)>>,
      <<TemplateSet(<<TplUnknown>>)>>,
      <<TemplateSet(<<TplB, TplUnknown>>)>>,
      <<OptionTemplateSet(<<TplOption>>)>>,
      <<TemplateSet(<<TplA>>), OptionTemplateSet(<<TplOption>>)>>,
      <<DataSetOf(256, <<RecA(ToNum(300), ToNum(3))>>)>>,
      <<DataSetOf(256, <<RecA(ToNum(300), ToNum(3)), RecA(Big, ToNum(1))>>)>>,
      <<DataSetOf(256, <<RecB>>)>>,
      <<DataSetOf(256, <<RecB, RecB>>)>>,
      <<DataSetOf(258, <<RecSmall, RecSmall>>)>>,
      <<DataSetOf(257, <<RecOption(ToNum(10))>>)>>,
      <<DataSetOf(257, <<RecOption(ToNum(2))>>), DataSetOf(256, <<RecA(ToNum(300), ToNum(3))>>)>>,
      <<DataSetOf(256, <<RecA(ToNum(300), ToNum(3))>>), TemplateSet(<<TplUnknown>>), TemplateSet(<<TplB>>)>>,
      <<DataSetOf(256, <<RecA(ToNum(300), ToNum(3)), RecB, RecB>>), DataSetOf(300, <<>>)>>,
      <<DataSetOf(300, <<RecB>>), DataSetOf(256, <<RecB>>)>>,
      <<TemplateSet(<<TplB>>), DataSetOf(256, <<RecB>>)>>,
      <<OptionTemplateSet(<<TplOption>>), DataSetOf(257, <<RecOption(ToNum(10))>>)>>,
      <<Overlong(DataSetOf(300, <<RecB>>), 40)>>,
      <<DataSetOf(256, <<RecB, RecB>>), DataSetOf(300, <<RecB, RecB>>)>>,
      <<DataSetOf(256, <<RecA(ToNum(300), ToNum(3))>>), ReservedSet(4, <<>>)>>,
      <<TemplateSet(<<TplSmall>>), ReservedSet(255, RecB), TemplateSet(<<TplA>>)>>,
      <<Overlong(ReservedSet(0, <<>>), 40)>>,
      <<TemplateSet(<<TplA, TplSmall>>),
        DataSetOf(258, <<RecSmall, RecSmall2, RecSmall>>),
        DataSetOf(256, <<RecA(ToNum(300), ToNum(3)), RecA(Big, ToNum(1))>>)>>,
      <<TemplateSet(<<TplZero>>), DataSetOf(259, <<RecB>>)>>,
      <<TemplateSet(<<TplLow>>)>>,
      <<DataSetOf(257, <<RecOption(ToNum(10)), RecOption(ToNum(2))>>)>>,
      <<Overlong(DataSetOf(300, <<>>), 0)>>,
      <<OptionTemplateSet(<<TplOption>>),
        DataSetOf(257, <<RecOption(ToNum(10))>>),
        TemplateSet(<<TplA>>),
        DataSetOf(256, <<RecA(ToNum(300), ToNum(3))>>),
        ReservedSet(4, <<>>)>>,
      <<TemplateSet(<<TplA>>),
        OptionTemplateSet(<<TplOptionAs256>>),
        DataSetOf(256, <<RecOption(ToNum(9)), RecOption(ToNum(8)), RecOption(ToNum(7))>>)>>,
      <<OptionTemplateSet(<<TplOption>>),
        TemplateSet(<<TplAAs257>>),
        DataSetOf(257, <<RecA(ToNum(300), ToNum(3))>>)>>,
      <<TemplateSet(<<TplA>>),
        OptionTemplateSet(<<TplOption>>),
        DataSetOf(256, <<RecA(ToNum(300), ToNum(3))>>),
        DataSetOf(257, <<RecOption(ToNum(2))>>),
        DataSetOf(256, <<RecA(ToNum(300), ToNum(3))>>)>>,
      <<DataSetOf(257, <<RecOption(ToNum(0))>>),
        DataSetOf(256, <<RecA(ToNum(300), ToNum(3))>>)>>,
      <<OptionTemplateSet(<<TplOptionWide, TplOptionNarrow, TplOptionNone>>),
        DataSetOf(260, <<RecOptionWide(ToNum(5))>>),
        DataSetOf(261, <<RecOptionNarrow(ToNum(5))>>),
        DataSetOf(262, <<RecOptionNone>>)>>
    }

IpA == "127.0.0.1"
IpB == "10.0.0.8"
Dom1 == <<0, 0, 8>>
Dom2 == <<1>>

\* the set sequences the second and the third exporter key send
OtherBodies ==
    { <<TemplateSet(<<TplA>>)>>,
      <<DataSetOf(256, <<RecA(ToNum(300), ToNum(3))>>)>> }

Datagram(from, domain, sets) ==
    [from |-> from, domain |-> domain, sets |-> sets, buf |-> EncMessage(domain, sets)]

IpfixDatagrams ==
    { Datagram(IpA, Dom1, b) : b \in Bodies }
      \cup { Datagram(IpA, Dom2, b) : b \in OtherBodies }
      \cup { Datagram(IpB, Dom1, b) : b \in OtherBodies }

\* a NetFlow v5 record as it is on the wire (packets 795, then the octets)
V5Rec(octets) ==
    <<112, 10, 20, 10, 172, 30, 190, 10, 172, 199, 15, 1, 0, 0, 0, 0, 0, 0, 3, 27>>
        \o to_be_bytes(octets, 4)
        \o <<0, 0, 2, 54, 0, 0, 3, 168, 0, 40, 0, 80, 0, 0, 6, 0, 195, 13, 53, 189, 21, 26, 0, 0>>

V5Message(count, sampl, recs) ==
    U16BE(VERSION_V5) \o U16BE(count) \o <<0, 0, 4, 178, 96, 128, 184, 156, 26, 71, 255, 48, 0, 0, 0, 2, 1, 0>>
        \o U16BE(sampl) \o Concat(recs)

\* datagrams that are no IPFIX message built from sets
RawBuffers ==
    { <<>>,
      <<0>>,
      <<0, 5>>,
      <<0, 9, 0, 0>>,
      <<5, 0>>,
      <<1, 10, 0, 16>>,
      <<0, 10>>,
      V5Message(1, 0, <<V5Rec(ToNum(259))>>),
      V5Message(2, 10, <<V5Rec(ToNum(259)), V5Rec(ToNum(259))>>),
      V5Message(1, 2, <<V5Rec(<<0, 0, 0, 128>>)>>),
      V5Message(2, 0, <<V5Rec(ToNum(259))>>),
      V5Message(2, 0, <<V5Rec(ToNum(259)), V5Rec(ToNum(515))>>),
      V5Message(1, 16394, <<V5Rec(ToNum(259))>>),
      V5Message(0, 0, <<V5Rec(ToNum(259))>>),
      V5Message(1, 0, <<>>),
      V5Message(0, 0, <<>>),
      V5Message(1, 0, <<V5Rec(ToNum(259)), <<0, 0, 0>>>>),
      V5Message(1, 2, <<V5Rec(<<0, 0, 0, 128>>), <<0, 0, 0>>>>) }

\* IPFIX messages whose header announces a length that is not the datagram's:
\* one octet more than announced, one octet less than announced
WrongLengthBuffers ==
    { EncMessage(Dom1, <<TemplateSet(<<TplA>>)>>) \o <<0>>,
      EncMessage(Dom1, <<TemplateSet(<<TplB>>),
                         DataSetOf(256, <<RecB>>),
                         OptionTemplateSet(<<TplOption>>),
                         DataSetOf(257, <<RecOption(ToNum(10))>>)>>) \o <<0, 0, 0, 0>>,
      SubSeq(EncMessage(Dom1, <<DataSetOf(256, <<RecB, RecB>>)>>), 1, 29) }

RawDatagrams ==
    { [from |-> IpA, domain |-> <<>>, sets |-> <<>>, buf |-> b] : b \in RawBuffers }
      \cup { [from |-> IpA, domain |-> Dom1, sets |-> <<>>, buf |-> b] : b \in WrongLengthBuffers }

Datagrams == IpfixDatagrams \cup RawDatagrams

(********************* threads/listener.rs: listen ***********************)

MIN_BUF_LEN == 2

\* one iteration of `loop` after recv_from returned (rcv_bytes, from): the
\* branch taken, what the decoder returned and the cache afterwards.  The
\* match on msg_list that sends the list is commented out in the source:
\* the value is dropped, whatever it is.
\* the iteration's outcome when parse_v5_msg / parse_ipfix_msg answered r
listen_v5(r, list) ==
    [branch |-> "v5", status |-> r.status, list |-> r.list, exporter_list |-> list]

listen_ipfix(r) ==
    [branch |-> "ipfix", status |-> r.status,
     list |-> IF r.status = "Ok" THEN r.st.data_set_list ELSE <<>>,
     exporter_list |-> r.st.exporter_list]

\* faulty variant of listen_dispatch: version 9 goes to the IPFIX decoder too
listen_dispatch_AcceptsV9(version, from, buf, list) ==
    IF version = VERSION_V5 THEN listen_v5(parse_v5_msg(buf), list)
    ELSE IF version \in {9, VERSION_IPFIX} THEN listen_ipfix(parse_ipfix_msg(from, buf, list))
    ELSE [branch |-> "bad_version", status |-> "Skip", list |-> <<>>,
          exporter_list |-> list]

listen_dispatch(version, from, buf, list) ==
    IF version = VERSION_V5 THEN listen_v5(parse_v5_msg(buf), list)
    ELSE IF version = VERSION_IPFIX THEN listen_ipfix(parse_ipfix_msg(from, buf, list))
    ELSE [branch |-> "bad_version", status |-> "Skip", list |-> <<>>,
          exporter_list |-> list]

listen_iteration(from, buf, list) ==
    IF Len(buf) < MIN_BUF_LEN
       THEN [branch |-> "too_small", status |-> "Skip", list |-> <<>>, exporter_list |-> list]
    ELSE listen_dispatch(u16_from_be_bytes(buf, 0), from, buf, list)

\* no codec was called on its own
NoCall == [op |-> "none"]

NoDatagram == [from |-> "", domain |-> <<>>, sets |-> <<>>, buf |-> <<>>]

Init ==
    /\ build \in {"debug", "release"}
    /\ exporter_list = EmptyMap
    /\ last = [dg |-> NoDatagram, pre |-> EmptyMap, branch |-> "none",
               status |-> "none", list |-> <<>>]
    /\ nrecv = 0
    /\ alive = "running"
    /\ channel = <<>>
    /\ consumer = "running"
    /\ codec = NoCall

\* what the thread keeps of the iteration on datagram d whose outcome is r
Listen_keep(d, r) ==
    /\ exporter_list' = r.exporter_list
    /\ last' = [dg |-> d, pre |-> exporter_list, branch |-> r.branch,
                status |-> r.status, list |-> r.list]
    /\ alive' = CASE r.status = "Panic" -> "panicked"
                  [] r.status = "Hang"  -> "hung"
                  [] OTHER              -> "running"

\* the ingest thread receives the datagram d and runs one iteration
Listen(d) ==
    /\ alive = "running"
    /\ nrecv < MaxDatagrams
    /\ Listen_keep(d, listen_iteration(d.from, d.buf, exporter_list))
    /\ nrecv' = nrecv + 1
    /\ UNCHANGED <<build, channel, consumer, codec>>

\* socket.recv_from(&mut buf) answers Err: `.expect("Didn't received data")`
\* panics and the ingest thread unwinds
RecvError ==
    /\ alive = "running"
    /\ nrecv < MaxDatagrams
    /\ last' = [dg |-> NoDatagram, pre |-> exporter_list, branch |-> "recv_error",
                status |-> "Panic", list |-> <<>>]
    /\ alive' = "panicked"
    /\ nrecv' = nrecv + 1
    /\ UNCHANGED <<build, exporter_list, channel, consumer, codec>>

(******************* threads/exporter.rs and main.rs *********************)

\* the Sender is owned by listen: it is dropped, and the channel closed,
\* when the ingest thread unwinds after a panic (listen never returns)
channel_closed == alive = "panicked"

\* one turn of `loop { let msg = receiver.recv().unwrap(); info!(..) }`:
\* recv blocks while the channel is empty and open, hands out the oldest
\* queued message, and answers Err once the channel is closed and drained:
\* unwrap then panics
Exporte ==
    /\ consumer = "running"
    /\ (channel # <<>> \/ channel_closed)
    /\ IF channel # <<>>
          THEN channel' = Tail(channel) /\ consumer' = "running"
          ELSE channel' = channel /\ consumer' = "panicked"
    /\ UNCHANGED <<build, exporter_list, last, nrecv, alive, codec>>

\* main joins the threads in the order it spawned them and unwraps the
\* answer: the join of a panicked ingest thread makes main panic, the
\* process ends and takes the consumer thread with it
MainJoin ==
    /\ alive = "panicked"
    /\ consumer = "running"
    /\ consumer' = "killed"
    /\ UNCHANGED <<build, exporter_list, last, nrecv, alive, channel, codec>>

Next ==
    \/ \E d \in Datagrams : Listen(d)
    \/ RecvError
    \/ Exporte
    \/ MainJoin

Spec == Init /\ [][Next]_vars

(****************** the wire codecs, each called on its own ****************)

\* fields one template declares at most
MaxFields == 2

\* declared field lengths: every width the decoder has an arm for, and
\* lengths around them that fall to the opaque arm
FieldLengths == {0, 1, 2, 3, 4, 8, 16, 17}

FieldKinds == {OctetDeltaCount, SourceIPv4Address}

\* the fields in front of the last field of a list
LeadFields ==
    { Field(OctetDeltaCount, 8), Field(SourceIPv4Address, 4),
      Field(SourceIPv4Address, 3), Field(SourceIPv4Address, 0) }

\* the lists of n fields in front of a last field
RECURSIVE LeadsOf(_)
LeadsOf(n) ==
    IF n = 0 THEN {<<>>}
    ELSE { Append(fl, f) : fl \in LeadsOf(n - 1), f \in LeadFields }

\* the field lists of at most n fields: the last field has any kind and
\* any length, the fields in front of it are lead fields
FieldListsOf(n) ==
    {<<>>} \cup UNION { { Append(fl, Field(k, l)) :
                            fl \in LeadsOf(m - 1), k \in FieldKinds, l \in FieldLengths } :
                        m \in 1..n }

\* the field lists of the templates the record decoder is called with
CodecFieldLists ==
    FieldListsOf(MaxFields)
        \cup {FieldsA, FieldsOption, <<Field(SourceIPv4Address, 65535)>>}

\* n octets, no two neighbours alike
Pattern(n) == [i \in 1..n |-> (37 * i + 11) % 256]

Prefixes(b) == { SubSeq(b, 1, n) : n \in 0..Len(b) }

\* the slices the readers of fixed size are called with
FixedSlices ==
    Prefixes(EncMessage(Dom1, <<TemplateSet(<<TplA>>)>>))
        \cup Prefixes(V5Message(1, 2, <<V5Rec(ToNum(259))>>))

\* the slices the template readers are called with: whole and cut template
\* records, one with an unknown field id, one that declares 65535 fields
TemplateSlices ==
    Prefixes(EncTemplate(TplA) \o <<0, 0>>)
        \cup Prefixes(EncTemplate(TplUnknown))
        \cup Prefixes(EncOptionTemplate(TplOption) \o <<0, 0>>)
        \cup Prefixes(EncTemplate(TplZero))
        \cup Prefixes(U16BE(300) \o U16BE(0) \o <<0, 8>>)
        \cup Prefixes(U16BE(256) \o U16BE(65535) \o EncFields(FieldsA))

\* u64 sampling intervals add_sampling is called with
CodecSamplings == {<<>>, <<1>>, <<2>>}

\* the template a template reader returns for the field list fl
TemplateOf(fl) == DataSetTemplate_read(EncTemplate([id |-> 256, fields |-> fl]), 0).template

\* a call of DataSet::read as the record loops make it: the fields and the
\* length of a template that was read, a slice of one octet less than the
\* length, of the length, of one octet more, and the key's sampling interval
RecordInputs(t) ==
    { [op |-> "none", kind |-> "record", buf |-> Pattern(n), template |-> t,
       sampling |-> sampling] :
         n \in {t.length - 1, t.length, t.length + 1} \cap Nat,
         sampling \in CodecSamplings }

CodecInputs ==
    { [op |-> "none", kind |-> "slice", buf |-> b] : b \in FixedSlices \cup TemplateSlices }
        \cup UNION { RecordInputs(TemplateOf(fl)) : fl \in CodecFieldLists }

\* the readers keep no state between two calls: a behaviour is one input
\* and one reader called with it
CodecInit ==
    /\ build \in {"debug", "release"}
    /\ exporter_list = EmptyMap
    /\ last = [dg |-> NoDatagram, pre |-> EmptyMap, branch |-> "none",
               status |-> "none", list |-> <<>>]
    /\ nrecv = 0
    /\ alive = "running"
    /\ channel = <<>>
    /\ consumer = "running"
    /\ codec \in CodecInputs

\* the reader `op` is called with the slice and answers r
Called(op, slices, r) ==
    /\ codec.op = "none"
    /\ codec.kind = "slice"
    /\ codec.buf \in slices
    /\ codec' = [op |-> op, buf |-> codec.buf, r |-> r]
    /\ UNCHANGED <<build, exporter_list, last, nrecv, alive, channel, consumer>>

Read_Header == Called("Header", FixedSlices, Header_read(codec.buf, 0))

Read_SetHeader == Called("SetHeader", FixedSlices, SetHeader_read(codec.buf, 0))

Read_TemplateHeader ==
    Called("TemplateHeader", FixedSlices, TemplateHeader_read(codec.buf, 0))

Read_OptionTemplateHeader ==
    Called("OptionTemplateHeader", FixedSlices, OptionTemplateHeader_read(codec.buf, 0))

Read_TemplateField == Called("TemplateField", FixedSlices, TemplateField_read(codec.buf, 0))

Read_V5Header == Called("V5Header", FixedSlices, V5Header_read(codec.buf, 0))

Read_V5DataSet == Called("V5DataSet", FixedSlices, V5DataSet_read(codec.buf, 0))

Read_DataSetTemplate ==
    Called("DataSetTemplate", TemplateSlices, DataSetTemplate_read(codec.buf, 0))

Read_OptionDataSetTemplate ==
    Called("OptionDataSetTemplate", TemplateSlices, OptionDataSetTemplate_read(codec.buf, 0))

\* what the record loop does with the answer r of DataSet::read: `?`, then
\* add_sampling on the record
DataSet_emit(r, sampling) ==
    IF r.st = "Ok" THEN DataSet_add_sampling(r.fields, sampling) ELSE [st |-> r.st]

Read_DataSet_keep(r) ==
    codec' = [op |-> "DataSet", buf |-> codec.buf, r |-> r, template |-> codec.template,
              sampling |-> codec.sampling, emitted |-> DataSet_emit(r, codec.sampling)]

\* DataSet::read(buf, &t.fields, t.length), then add_sampling(sampling)
Read_DataSet ==
    /\ codec.op = "none"
    /\ codec.kind = "record"
    /\ Read_DataSet_keep(DataSet_read(codec.buf, 0, codec.template.fields,
                                       codec.template.length))
    /\ UNCHANGED <<build, exporter_list, last, nrecv, alive, channel, consumer>>

CodecNext ==
    \/ Read_Header
    \/ Read_SetHeader
    \/ Read_TemplateHeader
    \/ Read_OptionTemplateHeader
    \/ Read_TemplateField
    \/ Read_V5Header
    \/ Read_V5DataSet
    \/ Read_DataSetTemplate
    \/ Read_OptionDataSetTemplate
    \/ Read_DataSet

SpecCodec == CodecInit /\ [][CodecNext]_vars

(******************************* claims **********************************)
\* The claims are stated over `last`: the datagram the ingest loop decoded
\* last (as the exporter built it), the cache before it (last.pre), the
\* decoder's answer (last.status, last.list) and the cache after it
\* (exporter_list).

LastKey == <<last.dg.from, last.dg.domain>>

TemplatesOf(list, key) == IF key \in DOMAIN list THEN list[key].template ELSE EmptyMap

PreTemplates == TemplatesOf(last.pre, LastKey)

PostTemplates == TemplatesOf(exporter_list, LastKey)

PreSampling == IF LastKey \in DOMAIN last.pre THEN last.pre[LastKey].sampling ELSE <<1>>

RECURSIVE SumLen(_)
SumLen(fields) == IF fields = <<>> THEN 0 ELSE Head(fields).length + SumLen(Tail(fields))

\* the datagram is an IPFIX message built from sets, each with a true length,
\* and every template record it carries declares at least one field
Structured ==
    /\ last.branch = "ipfix"
    /\ last.dg.sets # <<>>
    /\ \A i \in 1..Len(last.dg.sets) :
          /\ last.dg.sets[i].kind \in {"T", "OT", "D"}
          /\ last.dg.sets[i].length = 4 + Len(last.dg.sets[i].content)
          /\ \A j \in 1..Len(last.dg.sets[i].tpls) : last.dg.sets[i].tpls[j].fields # <<>>

OnlyKind(kinds) == \A i \in 1..Len(last.dg.sets) : last.dg.sets[i].kind \in kinds

\* the set s is a data set that the cache before the datagram maps to an
\* ordinary template
MapsToOrdinary(s) ==
    /\ s.kind = "D"
    /\ s.id \in DOMAIN PreTemplates
    /\ PreTemplates[s.id].kind = "IpfixDataSet"

\* record i (from 0) of the content of s, decoded field by field under fields
WireRecord(s, fields, i) == DataSet_read(s.content, i * SumLen(fields), fields, SumLen(fields)).fields

\* C1: once a template X of key K is installed, a later datagram of K with a
\* data set X holding n complete records of the template's length yields
\* exactly n records; a datagram that only carries templates yields none;
\* and with the default sampling interval 1 the records carry the wire values.
C1_TemplateAppliedToLaterData ==
    /\ (Structured /\ Len(last.dg.sets) = 1 /\ MapsToOrdinary(last.dg.sets[1])
            /\ PreTemplates[last.dg.sets[1].id].length > 0
            /\ Len(last.dg.sets[1].content) % PreTemplates[last.dg.sets[1].id].length = 0)
        => LET s == last.dg.sets[1]
               t == PreTemplates[s.id]
               n == Len(s.content) \div t.length
           IN  /\ last.status = "Ok"
               /\ Len(last.list) = n
               /\ PreSampling = <<1>> =>
                    \A i \in 1..n : last.list[i].fields = WireRecord(s, t.fields, i - 1)
    /\ (Structured /\ OnlyKind({"T", "OT"})) => last.list = <<>>

\* C2: a data set is decoded only with a template installed from exactly the
\* sending key (source IP, observation domain): with no template of its own
\* for the set ids it sends, a key gets zero records whatever the other keys
\* installed, and the answer never depends on the entries of other keys.
C2_TemplatesIsolatedPerKey ==
    Structured =>
        /\ (OnlyKind({"D"}) /\ \A i \in 1..Len(last.dg.sets) : last.dg.sets[i].id \notin DOMAIN PreTemplates)
              => last.list = <<>>
        /\ LET own == [k \in (DOMAIN last.pre) \cap {LastKey} |-> last.pre[k]]
               r   == listen_iteration(last.dg.from, last.dg.buf, own)
           IN  /\ r.status = last.status
               /\ r.list = last.list

\* C2 witness: a data set 256 from (127.0.0.1, domain 1) while only the same
\* address under another domain holds a template 256: nothing is emitted
C2_Witness ==
    /\ Structured
    /\ LastKey = <<IpA, Dom2>>
    /\ last.dg.sets[1].kind = "D"
    /\ last.dg.sets[1].id = 256
    /\ LastKey \notin DOMAIN last.pre
    /\ <<IpA, Dom1>> \in DOMAIN last.pre
    /\ 256 \in DOMAIN last.pre[<<IpA, Dom1>>].template
    /\ last.status = "Ok"
    /\ last.list = <<>>

\* C3: a data set whose id has no template for the sending key is skipped:
\* the datagram is answered Ok, the set gives no record and changes nothing
\* in the cache (no exporter entry is created: an entry always holds a
\* template), and the sets after it are decoded as if it were not there.
C3_UnknownDataSetSkipped ==
    /\ \A k \in DOMAIN exporter_list : DOMAIN exporter_list[k].template # {}
    /\ (Structured /\ OnlyKind({"D"})
            /\ \A i \in 1..Len(last.dg.sets) : last.dg.sets[i].id \notin DOMAIN PreTemplates)
        => /\ last.status = "Ok"
           /\ last.list = <<>>
           /\ exporter_list = last.pre
    /\ (Structured /\ Len(last.dg.sets) > 1 /\ last.dg.sets[1].kind = "D"
            /\ last.dg.sets[1].id \notin DOMAIN PreTemplates)
        => LET r == listen_iteration(last.dg.from,
                        EncMessage(last.dg.domain, Tail(last.dg.sets)), last.pre)
           IN  /\ last.status = r.status
               /\ last.list = r.list
               /\ exporter_list = r.exporter_list

\* C3 witness: an unknown data set 300 is skipped and the data set 256 after
\* it is decoded with the key's template
C3_Witness ==
    /\ Structured
    /\ Len(last.dg.sets) = 2
    /\ last.dg.sets[1].kind = "D"
    /\ last.dg.sets[1].id \notin DOMAIN PreTemplates
    /\ last.dg.sets[1].content # <<>>
    /\ MapsToOrdinary(last.dg.sets[2])
    /\ last.status = "Ok"
    /\ Len(last.list) = 1
    /\ exporter_list = last.pre

\* What the sets of a datagram mean, read off the exporter's description and
\* not off the octets: the template kinds in force when each set is reached.
\* m maps a template id to [kind, length].
RECURSIVE RefInstall(_, _, _)
RefInstall(m, tpls, kind) ==
    IF tpls = <<>> THEN m
    ELSE RefInstall(MapInsert(m, Head(tpls).id,
                        [kind |-> kind, length |-> SumLen(Head(tpls).fields)]),
                    Tail(tpls), kind)

\* records the set walker takes from c octets of content under record length L
RefDecoded(c, L) == IF c <= 4 THEN 0 ELSE ((c - 5) \div L) + 1

\* number of records of the sets that map to an ordinary template when reached
RECURSIVE RefEmitted(_, _)
RefEmitted(sets, m) ==
    IF sets = <<>> THEN 0
    ELSE LET s == Head(sets)
         IN  CASE s.kind = "T"  -> RefEmitted(Tail(sets), RefInstall(m, s.tpls, "IpfixDataSet"))
               [] s.kind = "OT" -> RefEmitted(Tail(sets), RefInstall(m, s.tpls, "IpfixOptionDataSet"))
               [] OTHER -> (IF s.id \in DOMAIN m /\ m[s.id].kind = "IpfixDataSet"
                               THEN RefDecoded(Len(s.content), m[s.id].length)
                            ELSE 0) + RefEmitted(Tail(sets), m)

PreKinds == [id \in DOMAIN PreTemplates |->
                [kind |-> PreTemplates[id].kind, length |-> PreTemplates[id].length]]

MapsToOption(s) ==
    /\ s.kind = "D"
    /\ s.id \in DOMAIN PreTemplates
    /\ PreTemplates[s.id].kind = "IpfixOptionDataSet"

\* C4: the returned list holds exactly the records of the data sets whose id
\* maps to an ordinary template of the sending key when the set is decoded;
\* data sets that map to an option template give no record and change
\* nothing but the key's sampling interval.
C4_EmittedIffOrdinaryTemplate ==
    /\ (Structured /\ last.status = "Ok")
          => Len(last.list) = RefEmitted(last.dg.sets, PreKinds)
    /\ (Structured /\ \A i \in 1..Len(last.dg.sets) : MapsToOption(last.dg.sets[i]))
          => /\ last.list = <<>>
             /\ DOMAIN exporter_list = DOMAIN last.pre
             /\ \A k \in DOMAIN exporter_list :
                   /\ exporter_list[k].template = last.pre[k].template
                   /\ k # LastKey => exporter_list[k] = last.pre[k]

\* C4 witness: one datagram with an option data set and an ordinary data set:
\* the option record changes the sampling interval, only the ordinary record
\* is returned
C4_Witness ==
    /\ Structured
    /\ Len(last.dg.sets) = 2
    /\ MapsToOption(last.dg.sets[1])
    /\ MapsToOrdinary(last.dg.sets[2])
    /\ last.status = "Ok"
    /\ Len(last.list) = 1
    /\ exporter_list[LastKey].sampling # last.pre[LastKey].sampling

\* the number a decoded field value stands for
ValueNum(fv) == IF fv.t = "Dyn" THEN Normalize(Reverse(fv.v)) ELSE fv.v

\* the number on the wire for field j of record i (from 0) of the set s
WireNum(s, fields, i, j) ==
    from_be_bytes(s.content, i * SumLen(fields) + SumLen(SubSeq(fields, 1, j - 1)),
                  fields[j].length)

\* C5: once a sampling interval S > 0 is stored for key K, every record
\* returned for K has octetDeltaCount and packetDeltaCount equal to the wire
\* value multiplied by S, for every template that contains those fields.
C5_CountersScaledBySampling ==
    (Structured /\ Len(last.dg.sets) = 1 /\ MapsToOrdinary(last.dg.sets[1])
        /\ PreSampling # <<>> /\ last.status = "Ok")
    => LET s == last.dg.sets[1]
           t == PreTemplates[s.id]
       IN  \A i \in 1..Len(last.list) : \A j \in 1..Len(t.fields) :
              t.fields[j].id \in {OctetDeltaCount, PacketDeltaCount}
                => ValueNum(last.list[i].fields[t.fields[j].id])
                     = MulNum(WireNum(s, t.fields, i - 1, j), PreSampling)

\* the template map of the key after the sets, from the exporter's description
RefTemplate(tpl, kind) ==
    [kind   |-> kind,
     header |-> IF kind = "IpfixDataSet"
                   THEN [id |-> tpl.id, field_count |-> Len(tpl.fields)]
                ELSE [id |-> tpl.id, field_count |-> Len(tpl.fields), scope_field_count |-> 1],
     fields |-> tpl.fields,
     length |-> SumLen(tpl.fields)]

RECURSIVE RefInstallAll(_, _, _)
RefInstallAll(m, tpls, kind) ==
    IF tpls = <<>> THEN m
    ELSE RefInstallAll(MapInsert(m, Head(tpls).id, RefTemplate(Head(tpls), kind)),
                       Tail(tpls), kind)

RECURSIVE RefTemplates(_, _)
RefTemplates(sets, m) ==
    IF sets = <<>> THEN m
    ELSE LET s == Head(sets)
         IN  CASE s.kind = "T"  -> RefTemplates(Tail(sets), RefInstallAll(m, s.tpls, "IpfixDataSet"))
               [] s.kind = "OT" -> RefTemplates(Tail(sets), RefInstallAll(m, s.tpls, "IpfixOptionDataSet"))
               [] OTHER -> RefTemplates(Tail(sets), m)

FieldIds(fields) == { fields[j].id : j \in 1..Len(fields) }

\* C6: installing a template under (key, id) replaces the prior entry as a
\* whole: after a datagram the key's map holds, for every id, exactly the
\* definition advertised last (fields, field count and total length), and
\* records are decoded with that definition only.
C6_InstallReplacesWhole ==
    /\ (Structured /\ last.status = "Ok")
          => PostTemplates = RefTemplates(last.dg.sets, PreTemplates)
    /\ (Structured /\ last.status = "Ok" /\ Len(last.dg.sets) = 1
            /\ MapsToOrdinary(last.dg.sets[1]))
          => \A i \in 1..Len(last.list) :
                DOMAIN last.list[i].fields = FieldIds(PreTemplates[last.dg.sets[1].id].fields)

\* C6 witness: template 256 is advertised again with another field list
C6_Witness ==
    /\ Structured
    /\ last.status = "Ok"
    /\ 256 \in DOMAIN PreTemplates
    /\ PreTemplates[256].fields = FieldsA
    /\ last.dg.sets[1].kind = "T"
    /\ last.dg.sets[1].tpls = <<TplB>>
    /\ PostTemplates[256].fields = FieldsB
    /\ PostTemplates[256].length = 5

\* C7: a datagram that decodes to a non-empty record list has that list
\* pushed, as one unit, onto the consumer channel.
C7_NonEmptyListPushed ==
    (last.status = "Ok" /\ last.list # <<>>)
        => /\ channel # <<>>
           /\ channel[Len(channel)] = last.list

\* C8: no datagram content stops ingest: the loop neither panics nor hangs,
\* it stays ready for the next recv_from.
C8_IngestNeverStops == alive = "running"

\* field ids the FieldType enum does not declare
NotInRegistry(n) ==
    \/ n \in 65..69
    \/ n = 97
    \/ n \in 105..127
    \/ n \in {416, 419}
    \/ n >= 492

UnknownTemplate(tpl) == \E j \in 1..Len(tpl.fields) : NotInRegistry(tpl.fields[j].id)

\* the sets that carry a template with a field id outside the registry
UnknownSets == { i \in 1..Len(last.dg.sets) :
                   \E j \in 1..Len(last.dg.sets[i].tpls) : UnknownTemplate(last.dg.sets[i].tpls[j]) }

FirstUnknownSet == CHOOSE i \in UnknownSets : \A k \in UnknownSets : i <= k

\* the entry id of the key's template map is what it was before the datagram
EntryUnchanged(id) ==
    /\ (id \in DOMAIN PostTemplates) = (id \in DOMAIN PreTemplates)
    /\ id \in DOMAIN PreTemplates => PostTemplates[id] = PreTemplates[id]

NoUnknownInstalled ==
    \A k \in DOMAIN exporter_list : \A id \in DOMAIN exporter_list[k].template :
        ~UnknownTemplate(exporter_list[k].template[id])

\* C9 as claimed: a template with an unregistered field id is dropped alone;
\* the templates after it are installed and the datagram is answered with
\* the records decoded from it.
C9_UnknownTemplateDroppedAlone ==
    (Structured /\ UnknownSets # {})
    => /\ NoUnknownInstalled
       /\ last.status = "Ok"
       /\ \A i \in 1..Len(last.dg.sets) : \A j \in 1..Len(last.dg.sets[i].tpls) :
             ~UnknownTemplate(last.dg.sets[i].tpls[j])
                => last.dg.sets[i].tpls[j].id \in DOMAIN PostTemplates
       /\ Len(last.list) >= RefEmitted(SubSeq(last.dg.sets, 1, FirstUnknownSet - 1), PreKinds)

\* C9, what the decoder does: a template with an unregistered field id makes the decoder
\* reject the whole datagram: no template with such a field is ever in the
\* cache, the call does not answer Ok and returns no record (those already
\* decoded are dropped), the templates of the sets after it are not
\* installed, and the templates installed before it stay installed.
C9_UnknownTemplateRejectsDatagram ==
    /\ NoUnknownInstalled
    /\ (Structured /\ UnknownSets # {})
       => LET u == FirstUnknownSet
              before == SubSeq(last.dg.sets, 1, u - 1)
              j == CHOOSE x \in 1..Len(last.dg.sets[u].tpls) :
                      /\ UnknownTemplate(last.dg.sets[u].tpls[x])
                      /\ \A y \in 1..(x - 1) : ~UnknownTemplate(last.dg.sets[u].tpls[y])
              head == [last.dg.sets[u] EXCEPT !.tpls = SubSeq(@, 1, j - 1)]
          IN  /\ last.status # "Ok"
              /\ last.list = <<>>
              /\ \A i \in (u + 1)..Len(last.dg.sets) : \A x \in 1..Len(last.dg.sets[i].tpls) :
                    (\A b \in 1..u : \A y \in 1..Len(last.dg.sets[b].tpls) :
                         last.dg.sets[b].tpls[y].id # last.dg.sets[i].tpls[x].id)
                      => EntryUnchanged(last.dg.sets[i].tpls[x].id)
              /\ (\A b \in 1..(u - 1) : last.dg.sets[b].kind \in {"T", "OT"})
                    => /\ last.status = "Err"
                       /\ PostTemplates = RefTemplates(Append(before, head), PreTemplates)

\* C9 witness: a datagram with a decodable data set, then a template with an
\* unregistered field, then a registered template 256: error, no record, and
\* template 256 keeps its earlier definition
C9_Witness ==
    /\ Structured
    /\ Len(last.dg.sets) = 3
    /\ MapsToOrdinary(last.dg.sets[1])
    /\ Len(last.dg.sets[1].content) = PreTemplates[256].length
    /\ UnknownSets = {2}
    /\ last.dg.sets[3].tpls = <<TplB>>
    /\ PreTemplates[256].fields = FieldsA
    /\ last.status = "Err"
    /\ last.list = <<>>
    /\ PostTemplates[256].fields = FieldsA

\* octets of the sets after the first one
RECURSIVE TotalLength(_)
TotalLength(sets) == IF sets = <<>> THEN 0 ELSE Head(sets).length + TotalLength(Tail(sets))

\* loop iterations of the record loop that start with fewer than L octets
\* left in the datagram: c octets of content, after octets behind the set
UnderflowAt(c, L, after) == { k \in 0..c : k * L + 4 < c /\ c + after - k * L < L }

FirstSetUnderflows ==
    /\ Structured
    /\ OnlyKind({"D"})
    /\ MapsToOrdinary(last.dg.sets[1])
    /\ PreTemplates[last.dg.sets[1].id].length > 0
    /\ UnderflowAt(Len(last.dg.sets[1].content), PreTemplates[last.dg.sets[1].id].length,
                   TotalLength(Tail(last.dg.sets))) # {}

FirstUnderflow ==
    LET U == UnderflowAt(Len(last.dg.sets[1].content), PreTemplates[last.dg.sets[1].id].length,
                         TotalLength(Tail(last.dg.sets)))
    IN  CHOOSE k \in U : \A x \in U : k <= x

\* C10 as claimed: a record decode underflow drops only the rest of its data
\* set: the records decoded before it are returned and the call answers Ok.
C10_UnderflowDropsRestOfSet ==
    FirstSetUnderflows
    => /\ last.status = "Ok"
       /\ Len(last.list) >= FirstUnderflow

\* C10, what the decoder does: a record decode underflow (fewer octets left in the datagram
\* than the template's total length) makes the decoder reject the whole
\* datagram: the call does not answer Ok, no record is returned, also not
\* those decoded before the underflow, and the cache is left as it was.
C10_UnderflowRejectsDatagram ==
    FirstSetUnderflows
    => /\ last.status # "Ok"
       /\ last.list = <<>>
       /\ exporter_list = last.pre

\* C10 witness: the second record of a data set underflows after the first
\* one was decoded, with another set behind: error and no record
C10_Witness ==
    /\ FirstSetUnderflows
    /\ FirstUnderflow = 1
    /\ Len(last.dg.sets) = 2
    /\ last.status = "Err"
    /\ last.list = <<>>

\* what parse_ipfix_msg answered for the last datagram, with the offset it
\* stopped at (the answer is a function of the datagram and the cache before)
LastParse == parse_ipfix_msg(last.dg.from, last.dg.buf, last.pre)

\* C11: the sets of an accepted IPFIX datagram tile it exactly: whenever
\* parse_ipfix_msg answers Ok, the offset behind the last set it walked
\* (16 plus the declared lengths of the sets) is the datagram's length, so a
\* set that announces more octets than are left is never accepted.
C11_SetsTileDatagram ==
    (last.branch = "ipfix" /\ last.status = "Ok")
        => LastParse.st.offset = Len(last.dg.buf)

\* the datagram carries data sets only, the first one under an ordinary
\* template of the cache, the others under no template at all
OnlyFirstSetDecodes ==
    /\ Structured
    /\ OnlyKind({"D"})
    /\ MapsToOrdinary(last.dg.sets[1])
    /\ \A i \in 2..Len(last.dg.sets) : last.dg.sets[i].id \notin DOMAIN PreTemplates

\* C12: no record is decoded from octets at or beyond the end of its set:
\* the records a data set yields lie entirely inside the set's content, so
\* n records of a template of total length L take at most the content's
\* octets, also when other sets follow in the datagram.
C12_NoReadBeyondEndOfSet ==
    (OnlyFirstSetDecodes /\ last.status = "Ok")
        => Len(last.list) * PreTemplates[last.dg.sets[1].id].length
               <= Len(last.dg.sets[1].content)

\* the last datagram went to the IPFIX decoder with a complete message
\* header whose length word is not the number of octets received
LengthMismatch ==
    /\ last.branch = "ipfix"
    /\ Len(last.dg.buf) >= Header_SIZE
    /\ u16_from_be_bytes(last.dg.buf, 2) # Len(last.dg.buf)

\* C13: an IPFIX datagram whose length differs from header.length is
\* rejected before any set is examined: the call answers an error, no
\* record is returned, and the cache (templates and sampling of every
\* exporter) is what it was before the datagram.
C13_LengthMismatchRejected ==
    LengthMismatch
        => /\ last.status = "Err"
           /\ last.list = <<>>
           /\ exporter_list = last.pre

\* C13 witness: a datagram one octet longer than its header announces, whose
\* template set is well formed, was rejected and its template not installed
C13_Witness ==
    /\ LengthMismatch
    /\ Len(last.dg.buf) = u16_from_be_bytes(last.dg.buf, 2) + 1
    /\ SetHeader_read(last.dg.buf, Header_SIZE).id = DataSetTemplate_SET_ID
    /\ last.status = "Err"
    /\ LastKey \notin DOMAIN exporter_list

\* set ids that name neither a template set, an option template set nor a
\* data set
ReservedId(id) ==
    /\ id < DataSet_MIN_SET_ID
    /\ id \notin {DataSetTemplate_SET_ID, OptionDataSetTemplate_SET_ID}

\* positions of the sets with a reserved id
ReservedSets == { i \in 1..Len(last.dg.sets) : ReservedId(last.dg.sets[i].id) }

\* the datagram went to the IPFIX decoder, carries a set with a reserved id
\* and a declared length of at least the set header, and the sets in front
\* of it are template, option template and data sets of true length whose
\* templates declare at least one field
ReservedSetReached ==
    /\ last.branch = "ipfix"
    /\ ReservedSets # {}
    /\ LET r == CHOOSE i \in ReservedSets : \A j \in ReservedSets : i <= j
       IN  /\ last.dg.sets[r].length >= SetHeader_SIZE
           /\ \A i \in 1..(r - 1) :
                 /\ last.dg.sets[i].kind \in {"T", "OT", "D"}
                 /\ last.dg.sets[i].length = 4 + Len(last.dg.sets[i].content)
                 /\ \A j \in 1..Len(last.dg.sets[i].tpls) :
                       last.dg.sets[i].tpls[j].fields # <<>>

V5WithHeader == last.branch = "v5" /\ Len(last.dg.buf) >= V5Header_SIZE

V5Count == u16_from_be_bytes(last.dg.buf, 2)

\* the 14 low bits of the header's sampling word
V5Interval == u16_from_be_bytes(last.dg.buf, 22) % 16384

\* a valid NetFlow v5 datagram: the header and header.count whole records
ValidV5 ==
    /\ V5WithHeader
    /\ Len(last.dg.buf) = V5Header_SIZE + V5DataSet_SIZE * V5Count

\* record i (from 0) as it is on the wire
V5Wire(i) == V5DataSet_read(last.dg.buf, V5Header_SIZE + V5DataSet_SIZE * i).pdu

\* the fields of a v5 record that no sampling correction touches
V5SameButCounters(a, b) == [a EXCEPT !.octets = <<>>, !.packets = <<>>] = [b EXCEPT !.octets = <<>>, !.packets = <<>>]

\* C15: for every valid NetFlow v5 datagram with header.count = N,
\* parse_v5_msg returns exactly N records, the i-th decoded from the octets
\* 24 + 48 i .. 24 + 48 (i + 1) of the datagram.
C15_V5EmitsCountRecords ==
    ValidV5
        => /\ last.status = "Ok"
           /\ Len(last.list) = V5Count
           /\ \A i \in 0..(V5Count - 1) : V5SameButCounters(last.list[i + 1], V5Wire(i))

\* header.count is not the number of whole records behind the header
V5CountMismatch ==
    /\ V5WithHeader
    /\ (Len(last.dg.buf) - V5Header_SIZE) \div V5DataSet_SIZE # V5Count

\* C16: parse_v5_msg rejects every datagram for which (length - 24) / 48,
\* by integer division, differs from header.count: it answers an error and
\* returns no record.  header.count is a word of the 24-octet header: the
\* property is about the datagrams that carry a complete header.
C16_V5CountMismatchRejected ==
    V5CountMismatch
        => /\ last.status = "Err"
           /\ last.list = <<>>

\* C16 witness: a datagram with one whole record and header.count = 2 was
\* rejected
C16_Witness ==
    /\ V5CountMismatch
    /\ Len(last.dg.buf) = V5Header_SIZE + V5DataSet_SIZE
    /\ V5Count = 2
    /\ last.status = "Err"
    /\ last.list = <<>>

\* the counter a corrected v5 record must carry: the wire value times the
\* interval when the interval is positive, the wire value otherwise
V5Corrected(wire) == IF V5Interval > 0 THEN MulNum(wire, ToNum(V5Interval)) ELSE wire

\* C17: every record parse_v5_msg emits has octets and packets multiplied by
\* the 14-bit sampling interval of the header when the interval is positive
\* and equal to the wire values when it is 0; no other field is changed.
C17_V5SamplingCorrection ==
    (V5WithHeader /\ last.status = "Ok")
        => \A i \in 1..Len(last.list) :
              /\ last.list[i].octets = V5Corrected(V5Wire(i - 1).octets)
              /\ last.list[i].packets = V5Corrected(V5Wire(i - 1).packets)
              /\ V5SameButCounters(last.list[i], V5Wire(i - 1))

\* the ingest loop received a datagram in its last iteration
Received == last.branch \notin {"none", "recv_error"}

\* the first two octets of the datagram as a big-endian u16
VersionWord == last.dg.buf[1] * 256 + last.dg.buf[2]

\* C18: the ingest loop dispatches on the first two octets read as a
\* big-endian u16: 5 goes to the v5 decoder, 10 to the IPFIX decoder, any
\* other value is rejected, a datagram shorter than 2 octets is skipped; a
\* rejected or skipped datagram leaves the cache as it was, yields no record
\* and the loop goes on.
C18_DispatchOnVersionWord ==
    Received
        => /\ last.branch = IF Len(last.dg.buf) < 2 THEN "too_small"
                            ELSE IF VersionWord = 5 THEN "v5"
                            ELSE IF VersionWord = 10 THEN "ipfix"
                            ELSE "bad_version"
           /\ last.branch = "v5" => last.status = parse_v5_msg(last.dg.buf).status
           /\ last.branch = "ipfix" => last.status = LastParse.status
           /\ last.branch \in {"too_small", "bad_version"}
                 => /\ exporter_list = last.pre
                    /\ last.list = <<>>
                    /\ alive = "running"

\* C18 witness: with templates in the cache, a datagram whose version word
\* is 9 was rejected and the cache kept
C18_Witness ==
    /\ Received
    /\ Len(last.dg.buf) >= 2
    /\ VersionWord = 9
    /\ last.branch = "bad_version"
    /\ last.pre # EmptyMap
    /\ exporter_list = last.pre
    /\ alive = "running"

\* C19: a failure of the UDP receive call does not end the ingest loop: the
\* error is logged and the loop calls recv_from again.
C19_RecvErrorRetried == last.branch = "recv_error" => alive = "running"

\* C20: the consumer leaves its loop, and ends normally, once the producer
\* has closed the channel and every queued message was received: it ends
\* in no other way and at no other moment.
C20_ConsumerExitsWhenClosed ==
    consumer # "running"
        => /\ consumer = "exited"
           /\ channel_closed
           /\ channel = <<>>

(*************** claims on ordering and on the cache's growth ***************)

\* the record the decoder emits for the octets at offset off of the datagram
EmittedAt(off, fields) ==
    [fields |-> DataSet_add_sampling(
                   DataSet_read(last.dg.buf, off, fields, SumLen(fields)).fields,
                   PreSampling).fields]

\* the records of the datagram in wire order: the sets in the order they
\* follow each other from offset base, and in each data set that maps to an
\* ordinary template the records by increasing offset
RECURSIVE WireOrder(_, _, _)
WireOrder(sets, m, base) ==
    IF sets = <<>> THEN <<>>
    ELSE LET s == Head(sets)
         IN  CASE s.kind = "T"  -> WireOrder(Tail(sets), RefInstallAll(m, s.tpls, "IpfixDataSet"),
                                             base + s.length)
               [] s.kind = "OT" -> WireOrder(Tail(sets), RefInstallAll(m, s.tpls, "IpfixOptionDataSet"),
                                             base + s.length)
               [] OTHER ->
                    (IF s.id \in DOMAIN m /\ m[s.id].kind = "IpfixDataSet"
                        THEN [k \in 1..RefDecoded(Len(s.content), m[s.id].length) |->
                                EmittedAt(base + SetHeader_SIZE + (k - 1) * m[s.id].length,
                                          m[s.id].fields)]
                     ELSE <<>>) \o WireOrder(Tail(sets), m, base + s.length)

\* no data set of the datagram maps to an option template when it is reached
RECURSIVE NoOptionData(_, _)
NoOptionData(sets, m) ==
    IF sets = <<>> THEN TRUE
    ELSE LET s == Head(sets)
         IN  CASE s.kind = "T"  -> NoOptionData(Tail(sets), RefInstall(m, s.tpls, "IpfixDataSet"))
               [] s.kind = "OT" -> NoOptionData(Tail(sets), RefInstall(m, s.tpls, "IpfixOptionDataSet"))
               [] OTHER -> /\ ~(s.id \in DOMAIN m /\ m[s.id].kind = "IpfixOptionDataSet")
                           /\ NoOptionData(Tail(sets), m)

\* the list parse_ipfix_msg returns holds the datagram's records in wire order
ListInWireOrder ==
    (Structured /\ last.status = "Ok" /\ NoOptionData(last.dg.sets, PreKinds))
        => last.list = WireOrder(last.dg.sets, PreTemplates, Header_SIZE)

\* a datagram whose two data sets, under two templates, give four records
TwoSetsInOrder ==
    /\ Structured
    /\ last.status = "Ok"
    /\ NoOptionData(last.dg.sets, PreKinds)
    /\ Len(last.list) = 4
    /\ SourceIPv4Address \in DOMAIN last.list[1].fields
    /\ SourceIPv4Address \in DOMAIN last.list[2].fields
    /\ last.list[1] # last.list[2]
    /\ OctetDeltaCount \in DOMAIN last.list[3].fields
    /\ last.list[3] # last.list[4]

\* C21: the records of one datagram are delivered contiguously and in wire
\* order (the records of an earlier set before those of a later set, in a
\* set by increasing offset), and the list is handed to the consumer as one
\* unit, one channel message per datagram.
C21_DeliveredInWireOrder ==
    /\ ListInWireOrder
    /\ (last.status = "Ok" /\ last.list # <<>>)
          => (channel # <<>> /\ channel[Len(channel)] = last.list)

\* the datagram carries a template record whose id the key already holds
ReAdvertises ==
    /\ Structured
    /\ OnlyKind({"T", "OT"})
    /\ \E i \in 1..Len(last.dg.sets) : \E j \in 1..Len(last.dg.sets[i].tpls) :
          last.dg.sets[i].tpls[j].id \in DOMAIN PreTemplates

\* C22: the per-exporter state only grows: whatever the thread received,
\* accepted or rejected, every key of the cache before is a key after, every
\* template id a key held it still holds, and a datagram that only carries
\* templates leaves the sampling interval of every key as it was.
C22_StateOnlyGrows ==
    \A k \in DOMAIN last.pre :
       /\ k \in DOMAIN exporter_list
       /\ DOMAIN last.pre[k].template \subseteq DOMAIN exporter_list[k].template
       /\ (last.branch = "ipfix" /\ last.dg.sets # <<>> /\ OnlyKind({"T", "OT"}))
             => exporter_list[k].sampling = last.pre[k].sampling

\* C22 witness: a key that learned the interval 10 and holds two templates
\* advertises one of them again
C22_Witness ==
    /\ ReAdvertises
    /\ last.status = "Ok"
    /\ PreSampling = <<10>>
    /\ Cardinality(DOMAIN PreTemplates) >= 2
    /\ exporter_list[LastKey].sampling = <<10>>

\* every set of the datagram is a data set that maps to an option template
OptionDataOnly ==
    /\ Structured
    /\ \A i \in 1..Len(last.dg.sets) : MapsToOption(last.dg.sets[i])

\* C23: sampling idempotence: after a datagram of option data sets was
\* decoded, decoding the same datagram again on the cache it left changes
\* neither the sampling interval nor the template map of any key.
C23_SamplingIdempotent ==
    (OptionDataOnly /\ last.status = "Ok")
        => LET again == parse_ipfix_msg(last.dg.from, last.dg.buf, exporter_list)
           IN  /\ again.status = "Ok"
               /\ again.st.exporter_list = exporter_list

\* C23 witness: an option data set of two records, intervals 10 then 2, led
\* the key from another interval to 2
C23_Witness ==
    /\ OptionDataOnly
    /\ last.status = "Ok"
    /\ Len(last.dg.sets[1].recs) = 2
    /\ PreSampling # <<2>>
    /\ exporter_list[LastKey].sampling = <<2>>

\* C25: parse_ipfix_msg terminates on every datagram and every cache: each
\* turn of its loops moves offset forward, also under a template whose
\* records have length 0, so the call answers Ok or Err and never loops
\* for ever.
C25_ParseTerminates ==
    last.branch = "ipfix" => last.status # "Hang"

\* C27: every template id the cache stores is at least 256: a template or
\* option template record whose id is below 256 is never installed.
C27_TemplateIdsAtLeast256 ==
    \A k \in DOMAIN exporter_list :
       \A id \in DOMAIN exporter_list[k].template : id >= DataSet_MIN_SET_ID

(********************* claims on the wire codecs ***************************)

\* the octets a reader of fixed size requires
FixedSize(op) ==
    CASE op = "Header"               -> Header_SIZE
      [] op = "SetHeader"            -> SetHeader_SIZE
      [] op = "TemplateHeader"       -> TemplateHeader_SIZE
      [] op = "OptionTemplateHeader" -> OptionTemplateHeader_SIZE
      [] op = "TemplateField"        -> TemplateField_SIZE
      [] op = "V5Header"             -> V5Header_SIZE
      [] op = "V5DataSet"            -> V5DataSet_SIZE

FixedOps == {"Header", "SetHeader", "TemplateHeader", "OptionTemplateHeader",
             "TemplateField", "V5Header", "V5DataSet"}

TemplateOps == {"DataSetTemplate", "OptionDataSetTemplate"}

TemplateHeaderSize(op) ==
    IF op = "DataSetTemplate" THEN TemplateHeader_SIZE ELSE OptionTemplateHeader_SIZE

\* the slice is shorter than the template record it starts: the header, or
\* the header and 4 octets for each field the header declares
TemplateSliceShort(op, buf) ==
    \/ Len(buf) < TemplateHeaderSize(op)
    \/ Len(buf) < TemplateHeaderSize(op) + TemplateField_SIZE * u16_from_be_bytes(buf, 2)

\* C24: every wire codec called with a slice shorter than its structure
\* requires answers an error, it neither decodes a value nor panics: the
\* fixed size for the headers, the template field and the v5 record, the
\* header plus 4 octets per declared field for the template readers, the
\* template's length for the IPFIX data record.
C24_ShortSliceIsError ==
    /\ (codec.op \in FixedOps /\ Len(codec.buf) < FixedSize(codec.op))
          => ~codec.r.ok
    /\ (codec.op \in TemplateOps /\ TemplateSliceShort(codec.op, codec.buf))
          => ~codec.r.ok
    /\ (codec.op = "DataSet" /\ Len(codec.buf) < codec.template.length)
          => codec.r.st = "Err"

\* C24 witness: a data record one octet short of a template of two fields
C24_Witness ==
    /\ codec.op = "DataSet"
    /\ Len(codec.template.fields) = 2
    /\ Len(codec.buf) = codec.template.length - 1
    /\ codec.r.st = "Err"

\* an option template record of two declared fields cut inside the second
CutTemplate ==
    /\ codec.op = "OptionDataSetTemplate"
    /\ Len(codec.buf) = OptionTemplateHeader_SIZE + TemplateField_SIZE + 1
    /\ u16_from_be_bytes(codec.buf, 2) = 2
    /\ ~codec.r.ok

\* the octets the field loop of DataSet::read walks over at offset off
ConsumedAt(off, fields) ==
    ReadFields(last.dg.buf, off, fields, 1,
               [st |-> "Ok", fields |-> EmptyMap, offset |-> 0]).offset

\* C26: for every template and option template in the cache the cached
\* length is the sum of the declared field lengths; decoding one record
\* under it consumes exactly that many octets, and the set walker moves by
\* the cached length per record: record i of a data set is the one decoded
\* at the set's content start plus (i - 1) times the cached length.
C26_CachedLengthIsRecordLength ==
    /\ \A k \in DOMAIN exporter_list : \A id \in DOMAIN exporter_list[k].template :
          exporter_list[k].template[id].length
              = SumLen(exporter_list[k].template[id].fields)
    /\ (Structured /\ Len(last.dg.sets) = 1 /\ MapsToOrdinary(last.dg.sets[1])
            /\ last.status = "Ok")
          => LET t == PreTemplates[last.dg.sets[1].id]
                 at(i) == Header_SIZE + SetHeader_SIZE + (i - 1) * t.length
             IN  \A i \in 1..Len(last.list) :
                    /\ ConsumedAt(at(i), t.fields) = t.length
                    /\ last.list[i] = EmittedAt(at(i), t.fields)

\* C26 witness: two records of 17 octets decoded under a template whose
\* three fields have the lengths 8, 8 and 1
C26_Witness ==
    /\ Structured
    /\ Len(last.dg.sets) = 1
    /\ MapsToOrdinary(last.dg.sets[1])
    /\ last.status = "Ok"
    /\ Len(last.list) = 2
    /\ Len(PreTemplates[last.dg.sets[1].id].fields) = 3
    /\ PreTemplates[last.dg.sets[1].id].length = 17
    /\ last.list[1] # last.list[2]

\* DataSet::read answered a record for the slice
RecordRead == codec.op = "DataSet" /\ codec.r.st = "Ok"

\* C28: a decoded record holds exactly one value per template field: for
\* every template and every slice of at least the template's length the
\* record has as many entries as the template has fields, each under the
\* kind of a field of its own.
C28_OneValuePerField ==
    RecordRead
        => /\ Cardinality(DOMAIN codec.r.fields) = Len(codec.template.fields)
           /\ DOMAIN codec.r.fields = FieldIds(codec.template.fields)

\* the FieldValue variant the width w is decoded to
VariantOf(w) ==
    CASE w = 1  -> "U8"
      [] w = 2  -> "U16"
      [] w = 4  -> "U32"
      [] w = 8  -> "U64"
      [] w = 16 -> "U128"
      [] OTHER  -> "Dyn"

\* the octets of field j of the record at the start of the slice: the field
\* starts where field j - 1 ended
WireOctets(buf, fields, j) ==
    SubSeq(buf, SumLen(SubSeq(fields, 1, j - 1)) + 1, SumLen(SubSeq(fields, 1, j)))

\* the value v when its w big-endian octets are the sequence octets
IsBigEndianOf(v, octets, w) ==
    /\ Len(v) <= w
    /\ \A i \in 1..w : octets[i] = (IF w - i + 1 <= Len(v) THEN v[w - i + 1] ELSE 0)

\* field j is the last field of its kind in the list: its value is the one
\* the record keeps under the kind
KeptField(fields, j) == \A i \in (j + 1)..Len(fields) : fields[i].id # fields[j].id

\* C29: the record decoder dispatches on the declared length only: a field
\* of 1, 2, 4, 8 or 16 octets is the big-endian u8, u16, u32, u64 or u128 of
\* exactly its octets, a field of any other length (0 and 65535 among them)
\* is the opaque sequence of exactly its octets, and each field starts
\* where the one before it ended.  The value looked at is the one the
\* record keeps under the field's kind.
C29_DispatchOnLength ==
    RecordRead
        => \A j \in 1..Len(codec.template.fields) :
              KeptField(codec.template.fields, j)
                => LET f      == codec.template.fields[j]
                       fv     == codec.r.fields[f.id]
                       octets == WireOctets(codec.buf, codec.template.fields, j)
                   IN  /\ fv.t = VariantOf(f.length)
                       /\ Len(octets) = f.length
                       /\ IF fv.t = "Dyn" THEN fv.v = octets
                          ELSE IsBigEndianOf(fv.v, octets, f.length)

\* C29 witness: a record of a 16-octet field that starts behind a 3-octet
\* field, read from a slice one octet longer than the record
C29_Witness ==
    /\ RecordRead
    /\ Len(codec.template.fields) = 2
    /\ codec.template.fields[1].length = 3
    /\ codec.template.fields[2].length = 16
    /\ codec.template.fields[1].id # codec.template.fields[2].id
    /\ Len(codec.buf) = 20
    /\ codec.r.fields[codec.template.fields[1].id].t = "Dyn"
    /\ codec.r.fields[codec.template.fields[2].id].t = "U128"

\* a field of 65535 octets is read as 65535 opaque octets; a field of no
\* octet as the empty sequence
OpaqueExtremes ==
    /\ RecordRead
    /\ Len(codec.template.fields) = 1
    /\ \/ /\ codec.template.fields[1].length = 65535
          /\ Len(codec.r.fields[SourceIPv4Address].v) = 65535
       \/ /\ codec.template.fields[1].length = 0
          /\ codec.r.fields[codec.template.fields[1].id] = [t |-> "Dyn", v |-> <<>>]

\* the octets of the record's values, in the order and the widths of the
\* template's fields, numbers big-endian
Serialise(values, fields) ==
    Concat([j \in 1..Len(fields) |->
              IF values[fields[j].id].t = "Dyn" THEN values[fields[j].id].v
              ELSE to_be_bytes(values[fields[j].id].v, fields[j].length)])

\* the record loop emitted a record for the slice
RecordEmitted == codec.op = "DataSet" /\ codec.emitted.st = "Ok"

\* C30: round trip: the values of an emitted record, serialised again in
\* the template's field order and widths, are the octets of the data record
\* they were decoded from.
C30_RoundTrip ==
    RecordEmitted
        => Serialise(codec.emitted.fields, codec.template.fields)
               = SubSeq(codec.buf, 1, codec.template.length)

\* no two fields of the list have the same kind
DistinctKinds(fields) ==
    \A i, j \in 1..Len(fields) : i # j => fields[i].id # fields[j].id

\* add_sampling leaves the record as it was read: the interval is 0 or 1,
\* or the record has no 8-octet octetDeltaCount or packetDeltaCount
Unscaled ==
    \/ codec.sampling \in {<<>>, <<1>>}
    \/ \A j \in 1..Len(codec.template.fields) :
          ~(/\ codec.template.fields[j].id \in {OctetDeltaCount, PacketDeltaCount}
            /\ codec.template.fields[j].length = 8)

\* what the decoder does: the round trip holds for the records of a template
\* whose fields have distinct kinds when add_sampling scaled no counter
RoundTripOfDistinctUnscaled ==
    (RecordEmitted /\ DistinctKinds(codec.template.fields) /\ Unscaled)
        => Serialise(codec.emitted.fields, codec.template.fields)
               = SubSeq(codec.buf, 1, codec.template.length)

\* what the decoder does: when the template's fields have distinct kinds the
\* record holds one value per field
OneValuePerDistinctField ==
    (RecordRead /\ DistinctKinds(codec.template.fields))
        => /\ Cardinality(DOMAIN codec.r.fields) = Len(codec.template.fields)
           /\ DOMAIN codec.r.fields = FieldIds(codec.template.fields)

(******************* claims on rejection and on sampling *******************)

\* the datagram is an IPFIX message built from sets, each with a true length
TrueLengths ==
    /\ last.branch = "ipfix"
    /\ last.dg.sets # <<>>
    /\ \A i \in 1..Len(last.dg.sets) :
          last.dg.sets[i].length = SetHeader_SIZE + Len(last.dg.sets[i].content)

\* what the decoder answers, on the cache before the datagram, for the
\* message of the first n sets of the datagram
SetsParse(n) ==
    parse_ipfix_msg(last.dg.from,
                    EncMessage(last.dg.domain, SubSeq(last.dg.sets, 1, n)),
                    last.pre)

\* the decoder's state at each set boundary of the accepted datagram, by the
\* number of sets in front of the boundary: the state before the datagram,
\* the state each leading run of sets leaves when it is a message of its
\* own, the state the datagram left
SetsParses ==
    [n \in 0..Len(last.dg.sets) |->
        IF n = 0
           THEN [status |-> "Ok",
                 st |-> [offset |-> Header_SIZE, data_set_list |-> <<>>,
                         exporter_list |-> last.pre]]
        ELSE IF n = Len(last.dg.sets)
           THEN [status |-> last.status,
                 st |-> [offset |-> Len(last.dg.buf), data_set_list |-> last.list,
                         exporter_list |-> exporter_list]]
        ELSE SetsParse(n)]

\* the template map of the key and the number of records decoded when the
\* decoder has gone through the first i sets, ps being the answers by the
\* number of sets
CacheAfter(ps, i) == TemplatesOf(ps[i].st.exporter_list, LastKey)

EmittedAfter(ps, i) == Len(ps[i].st.data_set_list)

TemplateIds(s) == { s.tpls[j].id : j \in 1..Len(s.tpls) }

KindOf(s) == IF s.kind = "T" THEN "IpfixDataSet" ELSE "IpfixOptionDataSet"

\* the state at each set boundary of the datagram follows the one namespace
OneNamespaceAlong(ps) ==
    (\A i \in 1..Len(last.dg.sets) : ps[i].status = "Ok")
        => \A i \in 1..Len(last.dg.sets) :
              LET s == last.dg.sets[i]
              IN  IF s.kind \in {"T", "OT"}
                     THEN /\ DOMAIN CacheAfter(ps, i)
                                = DOMAIN CacheAfter(ps, i - 1) \cup TemplateIds(s)
                          /\ \A id \in TemplateIds(s) : CacheAfter(ps, i)[id].kind = KindOf(s)
                          /\ \A id \in DOMAIN CacheAfter(ps, i - 1) \ TemplateIds(s) :
                                CacheAfter(ps, i)[id] = CacheAfter(ps, i - 1)[id]
                          /\ EmittedAfter(ps, i) = EmittedAfter(ps, i - 1)
                  ELSE /\ CacheAfter(ps, i) = CacheAfter(ps, i - 1)
                       /\ (s.id \in DOMAIN CacheAfter(ps, i)
                              /\ CacheAfter(ps, i)[s.id].kind = "IpfixOptionDataSet")
                             => EmittedAfter(ps, i) = EmittedAfter(ps, i - 1)
                       /\ (s.id \in DOMAIN CacheAfter(ps, i)
                              /\ CacheAfter(ps, i)[s.id].kind = "IpfixDataSet"
                              /\ Len(s.content) > padding)
                             => EmittedAfter(ps, i) > EmittedAfter(ps, i - 1)

\* C32: ordinary and option templates share one id namespace per key: the
\* key's map holds one template per id, of the kind of the set that
\* advertised the id last, whatever kind held the id before; a data set
\* whose id maps to an option template when it is reached emits no record,
\* one whose id maps to an ordinary template emits its records.  The sets
\* looked at are those of accepted datagrams of which the decoder accepts
\* every leading run of sets as a message of its own, so that the state at
\* each set boundary is the state such a message leaves.
C32_OneNamespace ==
    (Structured /\ last.status = "Ok") => OneNamespaceAlong(SetsParses)

\* an option template takes the id 256 of an ordinary template of the same
\* datagram; the data set 256 that follows is consumed, its interval learned
OptionReplacesOrdinary ==
    /\ Structured
    /\ last.status = "Ok"
    /\ Len(last.dg.sets) = 3
    /\ last.dg.sets[1].kind = "T"
    /\ last.dg.sets[2].kind = "OT"
    /\ TemplateIds(last.dg.sets[1]) = {256}
    /\ TemplateIds(last.dg.sets[2]) = {256}
    /\ last.dg.sets[3].id = 256
    /\ PostTemplates[256].kind = "IpfixOptionDataSet"
    /\ last.list = <<>>
    /\ exporter_list[LastKey].sampling = <<7>>

\* an ordinary template takes the id 257 the key held as an option template
\* before the datagram; the data set 257 that follows is emitted
OrdinaryReplacesOption ==
    /\ Structured
    /\ last.status = "Ok"
    /\ 257 \in DOMAIN PreTemplates
    /\ PreTemplates[257].kind = "IpfixOptionDataSet"
    /\ \E i \in 1..Len(last.dg.sets) :
          last.dg.sets[i].kind = "T" /\ 257 \in TemplateIds(last.dg.sets[i])
    /\ PostTemplates[257].kind = "IpfixDataSet"
    /\ last.list # <<>>

\* C32 witness: both replacements happened
C32_Witness ==
    OptionReplacesOrdinary /\ 257 \in DOMAIN PreTemplates
        /\ PreTemplates[257].kind = "IpfixDataSet"

\* the datagram is one data set that the cache maps to an ordinary template
\* of length 1 or more, its content a whole number of records
WholeRecords ==
    /\ Structured
    /\ Len(last.dg.sets) = 1
    /\ MapsToOrdinary(last.dg.sets[1])
    /\ PreTemplates[last.dg.sets[1].id].length >= 1
    /\ Len(last.dg.sets[1].content) % PreTemplates[last.dg.sets[1].id].length = 0

\* C33: every complete record is emitted: a data set whose content is
\* exactly k records of an ordinary template of length 1 or more yields
\* exactly k records; the padding rule only drops trailing octets too few
\* to form a record.
C33_EveryCompleteRecordEmitted ==
    WholeRecords
        => /\ last.status = "Ok"
           /\ Len(last.list)
                 = Len(last.dg.sets[1].content) \div PreTemplates[last.dg.sets[1].id].length

\* what the decoder does: the k records are emitted when the template is
\* longer than the padding of 4 octets and no counter overflows
CompleteRecordsOfLongTemplates ==
    (WholeRecords /\ PreTemplates[last.dg.sets[1].id].length > padding
        /\ last.status # "Panic")
        => /\ last.status = "Ok"
           /\ Len(last.list)
                 = Len(last.dg.sets[1].content) \div PreTemplates[last.dg.sets[1].id].length

\* two records of 4 octets each, of which the decoder emits one
LastShortRecordDropped ==
    /\ WholeRecords
    /\ PreTemplates[last.dg.sets[1].id].length = 4
    /\ Len(last.dg.sets[1].content) = 8
    /\ last.status = "Ok"
    /\ Len(last.list) = 1

\* the record the decoder emits for the octets at offset off of the datagram
\* when the key's interval is sampling
EmittedWith(off, fields, sampling) ==
    [fields |-> DataSet_add_sampling(
                   DataSet_read(last.dg.buf, off, fields, SumLen(fields)).fields,
                   sampling).fields]

\* the interval of the key behind the option record at offset off: the four
\* octets of its samplingInterval field, the interval before if the template
\* has no such field of four octets
WireInterval(off, fields, sampling) ==
    LET js == { j \in 1..Len(fields) :
                  fields[j].id = SamplingInterval /\ KeptField(fields, j) }
    IN  IF js # {} /\ fields[CHOOSE j \in js : TRUE].length = 4
           THEN from_be_bytes(last.dg.buf,
                              off + SumLen(SubSeq(fields, 1, (CHOOSE j \in js : TRUE) - 1)), 4)
        ELSE sampling

\* the interval of the key behind n option records from offset off
RECURSIVE IntervalAfter(_, _, _, _)
IntervalAfter(off, fields, n, sampling) ==
    IF n = 0 THEN sampling
    ELSE IntervalAfter(off + SumLen(fields), fields, n - 1, WireInterval(off, fields, sampling))

\* the records of the datagram in wire order, each corrected by the interval
\* the option records in front of it, in wire order, left for the key
RECURSIVE InForceOrder(_, _, _, _)
InForceOrder(sets, m, base, sampling) ==
    IF sets = <<>> THEN <<>>
    ELSE LET s == Head(sets)
         IN  CASE s.kind = "T"  ->
                    InForceOrder(Tail(sets), RefInstallAll(m, s.tpls, "IpfixDataSet"),
                                 base + s.length, sampling)
               [] s.kind = "OT" ->
                    InForceOrder(Tail(sets), RefInstallAll(m, s.tpls, "IpfixOptionDataSet"),
                                 base + s.length, sampling)
               [] OTHER ->
                    IF s.id \notin DOMAIN m
                       THEN InForceOrder(Tail(sets), m, base + s.length, sampling)
                    ELSE IF m[s.id].kind = "IpfixDataSet"
                       THEN [k \in 1..RefDecoded(Len(s.content), m[s.id].length) |->
                               EmittedWith(base + SetHeader_SIZE + (k - 1) * m[s.id].length,
                                           m[s.id].fields, sampling)]
                            \o InForceOrder(Tail(sets), m, base + s.length, sampling)
                    ELSE InForceOrder(Tail(sets), m, base + s.length,
                            IntervalAfter(base + SetHeader_SIZE, m[s.id].fields,
                                          RefDecoded(Len(s.content), m[s.id].length),
                                          sampling))

\* C34: a sampling interval learned from an option data record applies in
\* processing order: every record the datagram gives is corrected, by
\* add_sampling, with the interval of the last option record in front of it
\* on the wire (the interval the key had before the datagram if there is
\* none): records behind the option record, later sets of the same datagram
\* included, take the new interval, records in front of it keep the
\* correction by the interval before and are not scaled again.
C34_IntervalInProcessingOrder ==
    (Structured /\ last.status = "Ok")
        => last.list = InForceOrder(last.dg.sets, PreTemplates, Header_SIZE, PreSampling)

\* C34 witness: a record of 300 octets in front of an option record of
\* interval 2 and the same record behind it, under the interval 10 the key
\* had: 3000 octets, then 600
C34_Witness ==
    /\ Structured
    /\ last.status = "Ok"
    /\ Len(last.dg.sets) = 5
    /\ PreSampling = <<10>>
    /\ Len(last.list) = 2
    /\ last.list[1].fields[OctetDeltaCount].v = ToNum(3000)
    /\ last.list[1].fields[PacketDeltaCount].v = ToNum(30)
    /\ last.list[2].fields[OctetDeltaCount].v = ToNum(600)
    /\ last.list[2].fields[PacketDeltaCount].v = ToNum(6)
    /\ exporter_list[LastKey].sampling = <<2>>

\* the record as DataSet::read decodes it from offset off, not corrected
RawAt(off, fields) == [fields |-> DataSet_read(last.dg.buf, off, fields, SumLen(fields)).fields]

\* the first set of the datagram is an option data set of whole records whose
\* template starts with a samplingInterval of four octets
LeadingOptionSet ==
    /\ Structured
    /\ MapsToOption(last.dg.sets[1])
    /\ PreTemplates[last.dg.sets[1].id].fields[1] = Field(SamplingInterval, 4)
    /\ KeptField(PreTemplates[last.dg.sets[1].id].fields, 1)
    /\ PreTemplates[last.dg.sets[1].id].length > padding
    /\ last.dg.sets[1].recs # <<>>
    /\ \A i \in 1..Len(last.dg.sets[1].recs) :
          Len(last.dg.sets[1].recs[i]) = PreTemplates[last.dg.sets[1].id].length

\* the samplingInterval of the last record of the leading option data set
LastInterval ==
    from_be_bytes(last.dg.sets[1].recs[Len(last.dg.sets[1].recs)], 0, 4)

\* C35: an option data record with samplingInterval = 0 sets the stored
\* interval of the key to 0; while it is 0 the records of the key are emitted
\* as DataSet::read decodes them, octetDeltaCount and packetDeltaCount with
\* their wire values, neither multiplied nor set to zero, in the datagram of
\* the option record and in later datagrams; an option record with another
\* interval ends this.
C35_ZeroIntervalLeavesWireValues ==
    /\ (LeadingOptionSet /\ last.status = "Ok" /\ Len(last.dg.sets) = 1)
          => exporter_list[LastKey].sampling = LastInterval
    /\ (LeadingOptionSet /\ last.status = "Ok" /\ Len(last.dg.sets) = 2
            /\ MapsToOrdinary(last.dg.sets[2]) /\ LastInterval = <<>>)
          => /\ exporter_list[LastKey].sampling = <<>>
             /\ \A i \in 1..Len(last.list) :
                   last.list[i]
                     = RawAt(Header_SIZE + last.dg.sets[1].length + SetHeader_SIZE
                                 + (i - 1) * PreTemplates[last.dg.sets[2].id].length,
                             PreTemplates[last.dg.sets[2].id].fields)
    /\ (Structured /\ last.status = "Ok" /\ Len(last.dg.sets) = 1
            /\ MapsToOrdinary(last.dg.sets[1]) /\ PreSampling = <<>>)
          => /\ exporter_list[LastKey].sampling = <<>>
             /\ \A i \in 1..Len(last.list) :
                   last.list[i]
                     = RawAt(Header_SIZE + SetHeader_SIZE
                                 + (i - 1) * PreTemplates[last.dg.sets[1].id].length,
                             PreTemplates[last.dg.sets[1].id].fields)

\* the option record of interval 0 and, in the same datagram, a record of 300
\* octets and 3 packets emitted as 300 and 3 where the interval was 10
ZeroLearned ==
    /\ LeadingOptionSet
    /\ last.status = "Ok"
    /\ Len(last.dg.sets) = 2
    /\ LastInterval = <<>>
    /\ PreSampling = <<10>>
    /\ Len(last.list) = 1
    /\ last.list[1].fields[OctetDeltaCount].v = ToNum(300)
    /\ last.list[1].fields[PacketDeltaCount].v = ToNum(3)

\* an option record of interval 2 ends the interval 0
ZeroEnded ==
    /\ LeadingOptionSet
    /\ last.status = "Ok"
    /\ Len(last.dg.sets) = 1
    /\ PreSampling = <<>>
    /\ exporter_list[LastKey].sampling = <<2>>

\* C35 witness: a later datagram of the key that stored the interval 0 gives
\* records with the wire values 300 and 3
C35_Witness ==
    /\ Structured
    /\ last.status = "Ok"
    /\ Len(last.dg.sets) = 1
    /\ MapsToOrdinary(last.dg.sets[1])
    /\ PreSampling = <<>>
    /\ last.list # <<>>
    /\ last.list[1].fields[OctetDeltaCount].v = ToNum(300)
    /\ last.list[1].fields[PacketDeltaCount].v = ToNum(3)
    /\ exporter_list[LastKey].sampling = <<>>

\* the sampling interval the cache holds for the key k
SamplingOf(list, k) == IF k \in DOMAIN list THEN list[k].sampling ELSE <<1>>

\* set i of the datagram is a data set whose id maps, when the set is
\* reached, to an option template with a samplingInterval of four octets
OptionSetWithInterval(i) ==
    LET s == last.dg.sets[i]
        m == RefTemplates(SubSeq(last.dg.sets, 1, i - 1), PreTemplates)
    IN  /\ s.kind = "D"
        /\ s.id \in DOMAIN m
        /\ m[s.id].kind = "IpfixOptionDataSet"
        /\ \E j \in 1..Len(m[s.id].fields) : m[s.id].fields[j] = Field(SamplingInterval, 4)

\* C36: the stored sampling interval changes only when an option data
\* record has a samplingInterval field declared with length 4: whatever is
\* received, the interval of no other key than the sender's changes, and
\* the sender's changes only if the datagram has a data set that maps to an
\* option template with such a field; option records without the field or
\* with the field at another width, ordinary data sets and template sets
\* leave it as it was.
C36_SamplingChangesOnlyByU32Option ==
    /\ \A k \in DOMAIN exporter_list :
          (last.branch = "none" \/ k # LastKey)
             => exporter_list[k].sampling = SamplingOf(last.pre, k)
    /\ (Structured /\ LastKey \in DOMAIN exporter_list
            /\ exporter_list[LastKey].sampling # PreSampling)
          => \E i \in 1..Len(last.dg.sets) : OptionSetWithInterval(i)

\* C36 witness: option records with a samplingInterval of 8 octets, one of 2
\* octets and one without the field, each of interval 5 where it has one,
\* decoded for a key of interval 10, which stays 10
C36_Witness ==
    /\ Structured
    /\ last.status = "Ok"
    /\ Len(last.dg.sets) = 4
    /\ \A i \in 2..4 :
          /\ last.dg.sets[i].kind = "D"
          /\ PostTemplates[last.dg.sets[i].id].kind = "IpfixOptionDataSet"
          /\ ~OptionSetWithInterval(i)
    /\ SetsParse(4).st.offset = Len(last.dg.buf)
    /\ last.list = <<>>
    /\ PreSampling = <<10>>
    /\ exporter_list[LastKey].sampling = <<10>>

\* the first set header of the IPFIX datagram announces fewer than the 4
\* octets of the set header itself
ShortSetLength ==
    /\ last.branch = "ipfix"
    /\ last.dg.sets # <<>>
    /\ last.dg.sets[1].length < SetHeader_SIZE

\* C37: a set header whose length is below 4 makes parse_ipfix_msg reject
\* the datagram with an error: the content length never goes below 0 or
\* wraps, the thread does not panic, and offset neither moves backwards nor
\* stays where it was for ever.
C37_ShortSetLengthRejected ==
    ShortSetLength => last.status = "Err"

\* what the decoder does with a set length of 0: a debug build panics on
\* the subtraction, a release build wraps it and never leaves the set loop
ShortSetLengthPanicsOrHangs ==
    (ShortSetLength /\ last.dg.sets[1].length = 0)
        => \/ build = "debug" /\ last.status = "Panic" /\ alive = "panicked"
           \/ build = "release" /\ last.status = "Hang" /\ alive = "hung"

\* behind the header and header.count whole records the v5 datagram has 1 to
\* 47 octets more
V5TrailingOctets ==
    /\ V5WithHeader
    /\ (Len(last.dg.buf) - V5Header_SIZE) \div V5DataSet_SIZE = V5Count
    /\ (Len(last.dg.buf) - V5Header_SIZE) % V5DataSet_SIZE # 0

\* a counter of a whole record of the v5 datagram, times the interval, does
\* not fit 32 bits
V5CounterOverflows ==
    \E i \in 0..(((Len(last.dg.buf) - V5Header_SIZE) \div V5DataSet_SIZE) - 1) :
       \/ Len(MulNum(V5Wire(i).octets, ToNum(V5Interval))) > 4
       \/ Len(MulNum(V5Wire(i).packets, ToNum(V5Interval))) > 4

\* C38: parse_v5_msg answers Ok only for datagrams of length exactly
\* 24 + 48 * header.count, and then with header.count records; a datagram
\* with 1 to 47 octets behind its last whole record is never accepted,
\* though (length - 24) / 48 is header.count, and none of its records is
\* emitted: the call answers an error (where the correction of a whole
\* record in front of the trailing octets overflows, a debug build has
\* panicked before).
C38_V5OkOnlyForExactLength ==
    /\ (last.branch = "v5" /\ last.status = "Ok")
          => /\ Len(last.dg.buf) = V5Header_SIZE + V5DataSet_SIZE * V5Count
             /\ Len(last.list) = V5Count
    /\ V5TrailingOctets
          => /\ last.status # "Ok"
             /\ last.list = <<>>
             /\ ~(V5CounterOverflows /\ build = "debug") => last.status = "Err"

\* C38 witness: a datagram of header.count = 1 with one whole record and 3
\* octets behind it was rejected
C38_Witness ==
    /\ V5TrailingOctets
    /\ V5Count = 1
    /\ Len(last.dg.buf) = V5Header_SIZE + V5DataSet_SIZE + 3
    /\ ~V5CounterOverflows
    /\ last.status = "Err"
    /\ last.list = <<>>

\* C39: the v5 sampling correction is exact for all inputs: for every valid
\* datagram whose interval is 1..16383 and every 32-bit counter the call
\* answers Ok and the emitted octets and packets are the wire values times
\* the interval, with no overflow, wrap or panic.
C39_V5CorrectionExact ==
    (ValidV5 /\ V5Interval >= 1)
        => /\ last.status = "Ok"
           /\ \A i \in 1..Len(last.list) :
                 /\ last.list[i].octets = MulNum(V5Wire(i - 1).octets, ToNum(V5Interval))
                 /\ last.list[i].packets = MulNum(V5Wire(i - 1).packets, ToNum(V5Interval))

\* what the decoder does: the correction is exact where the products fit 32
\* bits
V5CorrectionExactIfFits ==
    (ValidV5 /\ V5Interval >= 1 /\ ~V5CounterOverflows)
        => /\ last.status = "Ok"
           /\ \A i \in 1..Len(last.list) :
                 /\ last.list[i].octets = MulNum(V5Wire(i - 1).octets, ToNum(V5Interval))
                 /\ last.list[i].packets = MulNum(V5Wire(i - 1).packets, ToNum(V5Interval))

\* where a product does not fit, a debug build panics and a release build
\* emits the product modulo 2^32
V5OverflowPanicsOrWraps ==
    (ValidV5 /\ V5Count = 1 /\ V5CounterOverflows)
        => \/ build = "debug" /\ last.status = "Panic"
           \/ /\ build = "release"
              /\ last.status = "Ok"
              /\ last.list[1].octets = checked_mul(V5Wire(0).octets, ToNum(V5Interval), 4).value
              /\ last.list[1].octets # MulNum(V5Wire(0).octets, ToNum(V5Interval))

\* the offset of the header of set k of the datagram
RECURSIVE SetStart(_)
SetStart(k) == IF k = 1 THEN Header_SIZE ELSE SetStart(k - 1) + last.dg.sets[k - 1].length

\* the decoder's offset lies in set k, behind its first octet
OffsetInSet(k) ==
    /\ SetStart(k) < LastParse.st.offset
    /\ LastParse.st.offset <= SetStart(k) + last.dg.sets[k].length

\* the sets in front of set k are template sets, option template sets and
\* data sets, no template of theirs without a field
SetsBefore(k) == SubSeq(last.dg.sets, 1, k - 1)

DescribedBefore(k) ==
    \A i \in 1..(k - 1) :
       /\ last.dg.sets[i].kind \in {"T", "OT", "D"}
       /\ \A j \in 1..Len(last.dg.sets[i].tpls) : last.dg.sets[i].tpls[j].fields # <<>>

\* the datagram was rejected inside set k
RejectedInSet(k) ==
    /\ TrueLengths
    /\ last.status = "Err"
    /\ k \in 1..Len(last.dg.sets)
    /\ OffsetInSet(k)
    /\ DescribedBefore(k)

\* the interval of the key behind the sets: the one the last option record
\* on the wire left
RECURSIVE IntervalBehind(_, _, _, _)
IntervalBehind(sets, m, base, sampling) ==
    IF sets = <<>> THEN sampling
    ELSE LET s == Head(sets)
         IN  CASE s.kind = "T"  ->
                    IntervalBehind(Tail(sets), RefInstallAll(m, s.tpls, "IpfixDataSet"),
                                   base + s.length, sampling)
               [] s.kind = "OT" ->
                    IntervalBehind(Tail(sets), RefInstallAll(m, s.tpls, "IpfixOptionDataSet"),
                                   base + s.length, sampling)
               [] OTHER ->
                    IF s.id \in DOMAIN m /\ m[s.id].kind = "IpfixOptionDataSet"
                       THEN IntervalBehind(Tail(sets), m, base + s.length,
                               IntervalAfter(base + SetHeader_SIZE, m[s.id].fields,
                                             RefDecoded(Len(s.content), m[s.id].length),
                                             sampling))
                    ELSE IntervalBehind(Tail(sets), m, base + s.length, sampling)

\* the cache of the sending key is the one the sets in front of set k and
\* the entries of set k in front of the rejected one leave
KeepsWhatWasDecoded(k) ==
    LET s  == last.dg.sets[k]
        m  == RefTemplates(SetsBefore(k), PreTemplates)
        iv == IntervalBehind(SetsBefore(k), PreTemplates, Header_SIZE, PreSampling)
    IN  CASE s.kind \in {"T", "OT"} ->
               /\ SamplingOf(exporter_list, LastKey) = iv
               /\ \E j \in 0..(Len(s.tpls) - 1) :
                     PostTemplates = RefInstallAll(m, SubSeq(s.tpls, 1, j), KindOf(s))
          [] s.kind = "D" /\ s.id \in DOMAIN m /\ m[s.id].kind = "IpfixOptionDataSet" ->
               /\ PostTemplates = m
               /\ \E n \in 0..RefDecoded(Len(s.content), m[s.id].length) :
                     SamplingOf(exporter_list, LastKey)
                        = IntervalAfter(SetStart(k) + SetHeader_SIZE, m[s.id].fields, n, iv)
          [] OTHER ->
               /\ PostTemplates = m
               /\ SamplingOf(exporter_list, LastKey) = iv

\* C31: a rejection is not rolled back on the cache: when parse_ipfix_msg
\* answers an error in set k, the templates the sets 1..k-1 and the template
\* records of set k in front of the rejected one installed, and the interval
\* their option records and the option records of set k in front of the
\* rejected one left, stay in the cache of the sending key; the other keys
\* are as before; no record of the datagram is emitted, those decoded
\* before the error included.
C31_RejectionKeepsCache ==
    \A k \in 1..Len(last.dg.sets) :
       RejectedInSet(k)
          => /\ last.list = <<>>
             /\ KeepsWhatWasDecoded(k)
             /\ \A key \in DOMAIN exporter_list \ {LastKey} :
                   key \in DOMAIN last.pre /\ exporter_list[key] = last.pre[key]

\* C31 witness: the fifth set is rejected after the first four installed
\* two templates, learned the interval 10 and decoded a record
C31_Witness ==
    /\ RejectedInSet(5)
    /\ PreTemplates = EmptyMap
    /\ DOMAIN PostTemplates = {256, 257}
    /\ exporter_list[LastKey].sampling = <<10>>
    /\ SetsParse(4).st.data_set_list # <<>>
    /\ last.list = <<>>

\* a template set rejected at its second template record keeps the first
RejectedInsideTemplateSet ==
    /\ RejectedInSet(1)
    /\ last.dg.sets[1].kind = "T"
    /\ Len(last.dg.sets[1].tpls) = 2
    /\ PreTemplates = EmptyMap
    /\ DOMAIN PostTemplates = {last.dg.sets[1].tpls[1].id}

====
